---- MODULE Spec2Model ----
(***************************************************************************)
(* Model of the carbon-gate estimator (calculations.py) of                 *)
(* bit-manip-hackeurope: the graduated gate decision, the Carnot PUE       *)
(* model, the thermal-throttling solver and the estimate_emissions         *)
(* orchestrator.                                                           *)
(*                                                                         *)
(* Reals are modelled as exact integers or rationals:                      *)
(*   - gate quantities (emissions, sigma, budget, used) are integers in    *)
(*     one common mass unit; fractions are pairs num/den compared by       *)
(*     cross-multiplication;                                               *)
(*   - temperatures of the PUE model are in centi-kelvin;                  *)
(*   - PUE values are in units of 1e-4 (round(pue, 4)).                    *)
(***************************************************************************)
EXTENDS Integers, Sequences, FiniteSets, TLC

(***************************************************************************)
(* Bounds of the model.                                                    *)
(***************************************************************************)
MaxEmissions == 5
MaxSigma     == 2
MaxBudget    == 10
MaxUsed      == 10
MaxCrusoe    == 2
MaxWait      == 2

MaxBelowZero == 20
MaxAmbient   == 45
MaxHours     == 3
MaxJunction  == 120

VARIABLES pc, gate_in, gate, pue_in, pue_out, thr_in, thr_out, est_in, est,
          fn_in, fn_out, live, requests

vars == <<pc, gate_in, gate, pue_in, pue_out, thr_in, thr_out, est_in, est,
          fn_in, fn_out, live, requests>>

(***************************************************************************)
(* Exact rationals n/d with d > 0.                                         *)
(***************************************************************************)
Rat(n, d) == [n |-> n, d |-> d]
RatLE(a, b) == a.n * b.d <= b.n * a.d
RatLT(a, b) == a.n * b.d < b.n * a.d
RatEQ(a, b) == a.n * b.d = b.n * a.d

Max(a, b) == IF a >= b THEN a ELSE b
Min(a, b) == IF a <= b THEN a ELSE b

Abs(x) == IF x < 0 THEN -x ELSE x

\* <<q, r>> with a * m = q * c + r and 0 <= r < c, for 0 <= a < c and m >= 0,
\* by binary long multiplication (no intermediate exceeds 2 * c).
RECURSIVE MulDivMod(_, _, _)
MulDivMod(a, m, c) ==
    IF m = 0 THEN <<0, 0>>
    ELSE LET h  == MulDivMod(a, m \div 2, c)
             r2 == 2 * h[2]
             q1 == 2 * h[1] + (IF r2 >= c THEN 1 ELSE 0)
             r1 == IF r2 >= c THEN r2 - c ELSE r2
             r3 == r1 + (IF m % 2 = 1 THEN a ELSE 0)
         IN  IF r3 >= c THEN <<q1 + 1, r3 - c>> ELSE <<q1, r3>>

\* round(scale * n / d) for n >= 0, d > 0: the nearest integer.
RoundScaled(n, d, scale) ==
    LET h == MulDivMod(n % d, scale, d)
    IN  (n \div d) * scale + h[1] + (IF 2 * h[2] >= d THEN 1 ELSE 0)

(***************************************************************************)
(* Gate thresholds (fractions of the monthly budget), in percent.          *)
(***************************************************************************)
THRESHOLD_WARN == 10
THRESHOLD_SOFT == 20
THRESHOLD_HARD == 50

Statuses == {"pass", "warn", "soft_block", "hard_block", "uncertain"}

(***************************************************************************)
(* compute_gate_decision, lines 752-757.                                   *)
(***************************************************************************)
Remaining(in) == in.monthly_budget_kg - in.monthly_used_kg

OverageKgMutant(in) ==
    Max(0, (IF in.crusoe_available THEN in.crusoe_emissions_kg
            ELSE in.emissions_kg) - Remaining(in))

OverageKg(in) == Max(0, in.emissions_kg - Remaining(in))

\* overage_kg / monthly_budget_kg if monthly_budget_kg > 0 else 0.0
OverageFrac(in) ==
    IF in.monthly_budget_kg > 0
    THEN Rat(OverageKg(in), in.monthly_budget_kg)
    ELSE Rat(0, 1)

LowerOverage(in) == Max(0, (in.emissions_kg - in.emissions_sigma) - Remaining(in))
UpperOverage(in) == Max(0, (in.emissions_kg + in.emissions_sigma) - Remaining(in))

(***************************************************************************)
(* The status rule, lines 759-768.                                         *)
(***************************************************************************)
IsUncertainMutant(in) == LowerOverage(in) = 0 /\ UpperOverage(in) >= 0

IsUncertain(in) == LowerOverage(in) = 0 /\ UpperOverage(in) > 0

GateStatus(in) ==
    IF IsUncertain(in) THEN "uncertain"
    ELSE IF OverageFrac(in).n = 0 THEN "pass"
    ELSE IF RatLE(OverageFrac(in), Rat(THRESHOLD_WARN, 100)) THEN "warn"
    ELSE IF RatLE(OverageFrac(in), Rat(THRESHOLD_SOFT, 100)) THEN "soft_block"
    ELSE "hard_block"

(***************************************************************************)
(* Resolution options, lines 770-811.  The input carbon_savings_pct is in  *)
(* tenths of a percent (the forecasters return round(savings, 1)) and the  *)
(* confidence in per mille; the savings_pct of an option is an exact       *)
(* rational number of percent; cost_delta is in cents.                     *)
(***************************************************************************)
Option(id, sav, cost, effort) ==
    [id |-> id, savings_pct |-> sav, cost_delta |-> cost, effort |-> effort]

WaitOfferedMutant(in) == in.optimal_window_hours > 0 /\ in.carbon_savings_pct >= 50

WaitOffered(in) == in.optimal_window_hours > 0 /\ in.carbon_savings_pct > 50

CrusoeOffered(in) == in.crusoe_available /\ in.crusoe_emissions_kg < in.emissions_kg

\* (1.0 - crusoe_emissions_kg / emissions_kg) * 100.0
CrusoeSaving(in) ==
    Rat((in.emissions_kg - in.crusoe_emissions_kg) * 100, in.emissions_kg)

OverrideOfferedMutant(status) == status \in {"warn", "soft_block", "hard_block", "uncertain"}

OverrideOffered(status) == status \in {"soft_block", "hard_block", "uncertain"}

GeneratedOptions(in, status) ==
       (IF WaitOffered(in)
        THEN <<Option("wait", Rat(in.carbon_savings_pct, 10), 0, "none")>>
        ELSE <<>>)
    \o (IF CrusoeOffered(in)
        THEN <<Option("crusoe", CrusoeSaving(in), 220, "low")>>
        ELSE <<>>)
    \o <<Option("reduce_epochs", Rat(44, 1), 0, "medium")>>
    \o (IF OverrideOffered(status)
        THEN <<Option("override", Rat(0, 1), 0, "high")>>
        ELSE <<>>)

(***************************************************************************)
(* options.sort(key=savings_pct, reverse=True), line 813: a stable sort,   *)
(* elements with equal keys keep their order.                              *)
(***************************************************************************)
RECURSIVE InsertDescMutant(_, _)
InsertDescMutant(s, x) ==
    IF s = <<>> THEN <<x>>
    ELSE IF RatLT(x.savings_pct, Head(s).savings_pct)
         THEN <<Head(s)>> \o InsertDescMutant(Tail(s), x)
         ELSE <<x>> \o s

RECURSIVE InsertDesc(_, _)
InsertDesc(s, x) ==
    IF s = <<>> THEN <<x>>
    ELSE IF RatLE(x.savings_pct, Head(s).savings_pct)
         THEN <<Head(s)>> \o InsertDesc(Tail(s), x)
         ELSE <<x>> \o s

RECURSIVE SortFrom(_, _)
SortFrom(acc, rest) ==
    IF rest = <<>> THEN acc
    ELSE SortFrom(InsertDesc(acc, Head(rest)), Tail(rest))

SortDesc(s) == SortFrom(<<>>, s)

(***************************************************************************)
(* The GateDecision returned at lines 823-829 (the message is omitted).    *)
(* overage_fraction is round(overage_frac, 4), in units of 1e-4;           *)
(* overage_frac keeps the unrounded value the status was decided on.       *)
(***************************************************************************)
GateDecision(in) ==
    [status             |-> GateStatus(in),
     overage_kg         |-> OverageKg(in),
     overage_frac       |-> OverageFrac(in),
     overage_fraction   |-> RoundScaled(OverageFrac(in).n, OverageFrac(in).d, 10000),
     resolution_options |-> SortDesc(GeneratedOptions(in, GateStatus(in)))]

NoGate ==
    [status |-> "none", overage_kg |-> 0, overage_frac |-> Rat(0, 1),
     overage_fraction |-> 0, resolution_options |-> <<>>]

(***************************************************************************)
(* compute_pue, lines 391-418.  Temperatures are integers in units of      *)
(* 0.05 K (273.15 K = 5463 units), ambient temperatures are given in half  *)
(* degrees Celsius (10 units).  PUE values are in units of 1e-4.           *)
(***************************************************************************)
UnitsPerKelvin == 20
UnitsPerHalfDegree == 10
ZeroCelsius == 5463
T_HOT_C == 35
CRUSOE_GROUND_TEMP_K == 285
ETA_COOLING == Rat(3, 5)

T_hot_K == T_HOT_C * UnitsPerKelvin + ZeroCelsius

\* T_cold_K after the clamp of line 407
ColdReservoir(ambient_half, is_crusoe) ==
    Min(IF is_crusoe THEN CRUSOE_GROUND_TEMP_K * UnitsPerKelvin
                     ELSE ambient_half * UnitsPerHalfDegree + ZeroCelsius,
        T_hot_K - 1 * UnitsPerKelvin)

\* ETA_COOLING * T / (T_hot_K - T), unreduced: d = 0 is the division by zero
\* of T / (T_hot_K - T), n = 0 the one of 1.0 / cop
Cop(T) == Rat(ETA_COOLING.n * T, ETA_COOLING.d * (T_hot_K - T))

CopDividesByZero(cop) == cop.d = 0 \/ cop.n = 0
CopNegative(cop) == (cop.n > 0 /\ cop.d < 0) \/ (cop.n < 0 /\ cop.d > 0)

\* 1.0 + 1.0 / cop, as a rational with a positive denominator
PueOfCop(cop) ==
    IF cop.n > 0 THEN Rat(cop.n + cop.d, cop.n) ELSE Rat(-(cop.n + cop.d), -cop.n)

PueDt == 2 * UnitsPerKelvin

\* abs(pue_hi - pue_lo) / 2.0
PueSigma(hi, lo) == Rat(Abs(hi.n * lo.d - lo.n * hi.d), 2 * hi.d * lo.d)

\* the evaluations of lines 409-415 in order, up to the first that raises
compute_pue(ambient_half, is_crusoe) ==
    LET T_cold_K == ColdReservoir(ambient_half, is_crusoe)
        cop      == Cop(T_cold_K)
        cop_hi   == Cop(T_cold_K + PueDt)
        cop_lo   == Cop(T_cold_K - PueDt)
        failed(cops) == [raised |-> TRUE, pue |-> 0, pue_sigma |-> 0, cops |-> cops]
    IN  IF CopDividesByZero(cop) THEN failed(<<cop>>)
        ELSE IF CopDividesByZero(cop_hi) THEN failed(<<cop, cop_hi>>)
        ELSE IF CopDividesByZero(cop_lo) THEN failed(<<cop, cop_hi, cop_lo>>)
        ELSE [raised    |-> FALSE,
              pue       |-> RoundScaled(PueOfCop(cop).n, PueOfCop(cop).d, 10000),
              pue_sigma |-> LET sg == PueSigma(PueOfCop(cop_hi), PueOfCop(cop_lo))
                            IN  RoundScaled(sg.n, sg.d, 10000),
              cops      |-> <<cop, cop_hi, cop_lo>>]

NoPue == [raised |-> FALSE, pue |-> 0, pue_sigma |-> 0, cops |-> <<>>]
NoPueIn == [ambient_temp_c |-> 0, is_crusoe |-> FALSE]

\* ambient temperatures, in half degrees Celsius
AmbientHalves == (-2 * MaxBelowZero)..(2 * MaxAmbient)

(***************************************************************************)
(* GPU reference data, lines 44-82.  alpha is in per mille, R_thermal in   *)
(* mK/W.                                                                   *)
(***************************************************************************)
GPU_TDP_W ==
    [H100 |-> 700, A100 |-> 400, V100 |-> 300, A10 |-> 150, A10G |-> 150,
     T4 |-> 70, L40 |-> 300, L40S |-> 350]

GPU_EMBODIED_KG ==
    [H100 |-> 150, A100 |-> 100, V100 |-> 75, A10 |-> 50, A10G |-> 50,
     T4 |-> 30, L40 |-> 90, L40S |-> 100]

GPU_THERMAL_PARAMS ==
    [H100 |-> [T_threshold |-> 83, T_range |-> 10, alpha |-> 200, R_thermal |-> 80],
     A100 |-> [T_threshold |-> 85, T_range |-> 10, alpha |-> 180, R_thermal |-> 90],
     V100 |-> [T_threshold |-> 88, T_range |-> 10, alpha |-> 150, R_thermal |-> 100],
     A10  |-> [T_threshold |-> 90, T_range |-> 10, alpha |-> 120, R_thermal |-> 120],
     A10G |-> [T_threshold |-> 90, T_range |-> 10, alpha |-> 120, R_thermal |-> 120],
     T4   |-> [T_threshold |-> 88, T_range |-> 10, alpha |-> 100, R_thermal |-> 150],
     L40  |-> [T_threshold |-> 85, T_range |-> 10, alpha |-> 180, R_thermal |-> 90],
     L40S |-> [T_threshold |-> 85, T_range |-> 10, alpha |-> 180, R_thermal |-> 90]]

\* the known identifiers and one that is in no table
Gpus == DOMAIN GPU_TDP_W \cup {"unknown"}

\* GPU_THERMAL_PARAMS.get(gpu, GPU_THERMAL_PARAMS["A100"]), line 442
ThermalParams(gpu) ==
    IF gpu \in DOMAIN GPU_THERMAL_PARAMS THEN GPU_THERMAL_PARAMS[gpu]
    ELSE GPU_THERMAL_PARAMS["A100"]

TdpOfMutant(gpu) == IF gpu \in DOMAIN GPU_TDP_W THEN GPU_TDP_W[gpu] ELSE 300

\* GPU_TDP_W.get(gpu, 400), line 443
TdpOf(gpu) == IF gpu \in DOMAIN GPU_TDP_W THEN GPU_TDP_W[gpu] ELSE 400

(***************************************************************************)
(* compute_throttle_adjustment, lines 425-464.  Junction and ambient       *)
(* temperatures are in centi-degrees Celsius, power in mW, energy in units *)
(* of 1e-4 kWh, the throttle percentage in units of 0.01 %.                *)
(***************************************************************************)
\* power_at, lines 445-447
power_at(gpu, T_j) ==
    LET p        == ThermalParams(gpu)
        throttle == Max(0, (p.alpha * 10 * (T_j - 100 * p.T_threshold)) \div p.T_range)
    IN  (TdpOf(gpu) * (1000000 - Min(throttle, p.alpha * 1000))) \div 1000

\* T_ss of line 451: ambient + power_at(T_j) * R_thermal
SteadyState(gpu, ambient_c, T_j) ==
    ambient_c + (power_at(gpu, T_j) * ThermalParams(gpu).R_thermal) \div 10000

\* max(100, int(hours * 60)), line 454
SampleCount(hours) == Max(100, hours * 60)

\* The solver's advance of T_j from one sample of t_eval to the next (their
\* spacing is hours * 3600 / (n - 1) seconds): two explicit steps of
\* dT_j/dt = (T_ss - T_j) / 60, each over half the spacing.
HalfStep(gpu, ambient_c, T_j, hours) ==
    T_j + ((SteadyState(gpu, ambient_c, T_j) - T_j) * 30 * hours)
              \div (SampleCount(hours) - 1)

NextSample(gpu, ambient_c, T_j, hours) ==
    HalfStep(gpu, ambient_c, HalfStep(gpu, ambient_c, T_j, hours), hours)

\* One sample of the trace: P_trace[i] = power_at(T_j) enters
\* np.trapezoid(P_trace, t_eval) with weight 1 at both ends and 2 inside
\* (sum2 is twice the sum of the trapezoid heights), and T_j moves on to the
\* next sample.
TakeSample(gpu, ambient_c, hours, s) ==
    LET w == IF s.i = 0 \/ s.i = SampleCount(hours) - 1 THEN 1 ELSE 2
    IN  [i    |-> s.i + 1,
         T_j  |-> NextSample(gpu, ambient_c, s.T_j, hours),
         sum2 |-> s.sum2 + w * power_at(gpu, s.T_j)]

\* count consecutive samples, by halving
RECURSIVE TakeSamples(_, _, _, _, _)
TakeSamples(gpu, ambient_c, hours, s, count) ==
    IF count = 0 THEN s
    ELSE IF count = 1 THEN TakeSample(gpu, ambient_c, hours, s)
    ELSE LET mid == TakeSamples(gpu, ambient_c, hours, s, count \div 2)
         IN  IF mid.i < 0 THEN mid
             ELSE TakeSamples(gpu, ambient_c, hours, mid, count - count \div 2)

\* the trace from T_j(0) = ambient, line 455
TrapezoidSum(gpu, ambient_c, hours) ==
    TakeSamples(gpu, ambient_c, hours, [i |-> 0, T_j |-> ambient_c, sum2 |-> 0],
                SampleCount(hours)).sum2

\* lines 457-464 on the integral of the power trace; the division by
\* naive_kwh = 0 of line 462 is a float64 division 0.0 / 0.0, whose result
\* is NaN
ThrottleResult(gpu, hours, sum2) ==
    LET n     == SampleCount(hours)
        full2 == 2 * (n - 1) * TdpOf(gpu) * 1000
        naive == TdpOf(gpu) * hours * 10
    IN  [raised       |-> FALSE,
         energy_kwh   |-> RoundScaled(sum2, 200 * (n - 1), hours),
         naive_kwh    |-> naive,
         pct_is_nan   |-> naive = 0,
         throttle_pct |-> IF naive = 0 THEN 0
                          ELSE IF sum2 <= full2
                               THEN RoundScaled(full2 - sum2, full2, 10000)
                               ELSE -RoundScaled(sum2 - full2, full2, 10000)]

NoThrottle ==
    [raised |-> FALSE, energy_kwh |-> 0, naive_kwh |-> 0, pct_is_nan |-> FALSE,
     throttle_pct |-> 0]

ThrottleRaised == [NoThrottle EXCEPT !.raised = TRUE]

\* The outcomes of a call.  For hours = 0 the time span (0, 0) of line 455 is
\* empty and what solve_ivp does with the samples of t_eval depends on the
\* installed solver: it hands back no sample, and the solver or line 457
\* raises, or it hands back the trace at t = 0, and line 462 divides by
\* naive_kwh = 0.
compute_throttle_adjustment(gpu, hours, ambient_half) ==
    {ThrottleResult(gpu, hours, TrapezoidSum(gpu, 50 * ambient_half, hours))}
        \cup (IF hours = 0 THEN {ThrottleRaised} ELSE {})
NoThrottleIn == [gpu |-> "A100", hours |-> 0, ambient_temp_c |-> 0]

\* ambient temperatures of the direct calls, in half degrees: every fifth
\* degree of the weather range and three beyond every throttle threshold
ThrottleAmbients ==
    {h \in AmbientHalves : h % 10 = 0} \cup {2 * 85, 2 * 95, 2 * 105}

\* junction temperatures, in centi-degrees: every half degree
JunctionTemps == {50 * h : h \in (-2 * MaxBelowZero)..(2 * MaxJunction)}

(***************************************************************************)
(* Inputs of a direct call of compute_gate_decision.                       *)
(***************************************************************************)
\* 0 %, 5 %, 5.1 %, 44 % (the savings of reduce_epochs) and 50 %
SavingsPcts == {0, 50, 51, 440, 500}
Confidences == {500, 900}

CoreInputs ==
    [emissions_kg      : 0..MaxEmissions,
     emissions_sigma   : 0..MaxSigma,
     monthly_budget_kg : 0..MaxBudget,
     monthly_used_kg   : 0..MaxUsed]

GateInputs ==
    [emissions_kg              : 0..MaxEmissions,
     emissions_sigma           : 0..MaxSigma,
     monthly_budget_kg         : 0..MaxBudget,
     monthly_used_kg           : 0..MaxUsed,
     optimal_window_hours      : {0, MaxWait},
     optimal_window_confidence : Confidences,
     carbon_savings_pct        : SavingsPcts,
     crusoe_available          : BOOLEAN,
     crusoe_emissions_kg       : 0..MaxCrusoe]

\* a call that fixes the forecast and alternative-infrastructure inputs
WithDefaultOptions(c) ==
    [emissions_kg              |-> c.emissions_kg,
     emissions_sigma           |-> c.emissions_sigma,
     monthly_budget_kg         |-> c.monthly_budget_kg,
     monthly_used_kg           |-> c.monthly_used_kg,
     optimal_window_hours      |-> 0,
     optimal_window_confidence |-> 500,
     carbon_savings_pct        |-> 0,
     crusoe_available          |-> FALSE,
     crusoe_emissions_kg       |-> 0]

\* no direct call of a helper function
NoFn == [fn |-> "none"]

NoGateIn == WithDefaultOptions([emissions_kg |-> 0, emissions_sigma |-> 0,
                                monthly_budget_kg |-> 0, monthly_used_kg |-> 0])

(***************************************************************************)
(* Regional grid data, lines 114-163, and the live grid signal, lines      *)
(* 183-328.  Intensities are in units of 0.01 gCO2/kWh, percentiles in     *)
(* units of 0.01.                                                          *)
(***************************************************************************)
WATTTIME_BA ==
    ("us-east-1" :> "PJM_ROANOKE") @@ ("us-east-2" :> "PJM_OHIO") @@
    ("us-west-1" :> "CAISO_NORTH") @@ ("us-west-2" :> "NW_PACIF") @@
    ("eu-west-1" :> "IE") @@ ("eu-west-2" :> "GB") @@
    ("eu-central-1" :> "DE") @@ ("eu-north-1" :> "SE") @@
    ("ap-southeast-1" :> "SG") @@ ("ap-northeast-1" :> "JP_TK")

REGION_BASELINE ==
    ("us-east-1" :> 150) @@ ("us-east-2" :> 130) @@ ("us-west-1" :> 80) @@
    ("us-west-2" :> 50) @@ ("eu-west-1" :> 80) @@ ("eu-west-2" :> 100) @@
    ("eu-central-1" :> 150) @@ ("eu-north-1" :> 10) @@
    ("ap-southeast-1" :> 350) @@ ("ap-northeast-1" :> 300)

REGION_RANGE ==
    ("us-east-1" :> 350) @@ ("us-east-2" :> 320) @@ ("us-west-1" :> 180) @@
    ("us-west-2" :> 100) @@ ("eu-west-1" :> 250) @@ ("eu-west-2" :> 220) @@
    ("eu-central-1" :> 250) @@ ("eu-north-1" :> 40) @@
    ("ap-southeast-1" :> 150) @@ ("ap-northeast-1" :> 200)

\* _REGION_BASELINE.get(region, 200.0) and _REGION_RANGE.get(region, 250.0)
BaselineOf(region) ==
    IF region \in DOMAIN REGION_BASELINE THEN REGION_BASELINE[region] ELSE 200
RangeOf(region) ==
    IF region \in DOMAIN REGION_RANGE THEN REGION_RANGE[region] ELSE 250

\* base + (pct / 100.0) * rng, in units of 1e-4 g/kWh (exact)
percentile_to_g_kwh(region, pct) ==
    BaselineOf(region) * 10000 + pct * RangeOf(region)

\* lines 190-201
fallback_intensity(region) ==
    [intensity_g_kwh |-> BaselineOf(region) * 100 + RangeOf(region) * 40,
     intensity_sigma |-> RangeOf(region) * 15,
     source          |-> "fallback",
     balancing_auth  |-> IF region \in DOMAIN WATTTIME_BA
                         THEN WATTTIME_BA[region] ELSE "unknown",
     percent_clean   |-> <<>>]

\* the answer of lines 255-270 to a signal index of raw percent
live_intensity(region, raw) ==
    [intensity_g_kwh |-> RoundScaled(percentile_to_g_kwh(region, 100 * raw), 100, 1),
     intensity_sigma |-> RoundScaled(percentile_to_g_kwh(region, 108 * raw)
                                       - percentile_to_g_kwh(region, 92 * raw),
                                     200, 1),
     source          |-> "watttime",
     balancing_auth  |-> WATTTIME_BA[region],
     percent_clean   |-> <<10 * (100 - raw)>>]

\* signal indices the live source may answer with
Percentiles == {0, 50, 100}

\* get_watttime_intensity, lines 204-273: the fallback when the HTTP library
\* or the credentials are missing, the region has no balancing authority, a
\* request fails or anything raises; the live answer otherwise
WattTimeIntensities(region) ==
    {fallback_intensity(region)}
        \cup (IF region \in DOMAIN WATTTIME_BA
              THEN {live_intensity(region, raw) : raw \in Percentiles}
              ELSE {})

\* get_watttime_forecast, lines 276-328: [] on every failure, else the
\* hourly series, kept here as its length, the index of its minimum and the
\* minimum (a converted percentile, rounded to 0.01 g/kWh)
NoSeries == [len |-> 0, min_idx |-> 0, min_g |-> 0]

\* what the live source answered to the two lookups of an evaluation
NoLive == [watttime_data |-> [source |-> "none"], watttime_forecast |-> NoSeries]

\* line 325: hourly[::12][:hours_ahead] if len(hourly) >= 12 else hourly,
\* as the length of the series returned for a number of 5-minute points
HourlyLen(points, hours_ahead) ==
    IF points >= 12 THEN Min((points + 11) \div 12, hours_ahead) ELSE points

\* numbers of 5-minute points the live source may answer with: less than an
\* hour, and the two numbers around half a day of hourly points
ForecastPoints == {11, 276, 277}

\* lines 320-325: the series made of a number of 5-minute points whose
\* lowest hourly sample is the i-th, at signal index p
HourlySeries(region, points, i, p) ==
    [len     |-> HourlyLen(points, 48),
     min_idx |-> i,
     min_g   |-> RoundScaled(percentile_to_g_kwh(region, 100 * p), 100, 1)]

WattTimeForecasts(region) ==
    {NoSeries}
        \cup (IF region \in DOMAIN WATTTIME_BA
              THEN {HourlySeries(region, n, i, p)
                       : n \in ForecastPoints, i \in {0, 6}, p \in {0, 100}}
              ELSE {})

(***************************************************************************)
(* The harmonic forecaster, lines 471-632.  The least-squares fit itself   *)
(* is not computed: an intensity history is kept as its length and what    *)
(* the fit of lines 517-536 and the projection of lines 586-606 yield on   *)
(* it: the index (hours ahead) and value (0.01 g/kWh) of the forecast      *)
(* minimum, the residual standard deviation, the range of the forecast     *)
(* and the volatility of the history (g/kWh), and the share of variance    *)
(* (per mille) a refit on the columns of each harmonic group explains.     *)
(* Savings are in tenths of a percent, confidences exact rationals and,    *)
(* once rounded, per mille.                                                *)
(***************************************************************************)
MinHistory == 48
WeeklyHistory == 336
BiweeklyHistory == 672
DefaultDailyHarmonics == 5
DefaultWeeklyHarmonics == 2

\* count cosine/sine pairs of one period, lines 479-481
HarmonicColumns(period, count) ==
    [i \in 1..(2 * count) |->
        [period |-> period, harmonic |-> (i + 1) \div 2,
         trig |-> IF i % 2 = 1 THEN "cos" ELSE "sin"]]

build_fourier_matrixMutant(n_daily, n_weekly, N_history) ==
       <<[period |-> 0, harmonic |-> 0, trig |-> "one"]>>
    \o HarmonicColumns(24, n_daily)
    \o (IF N_history > WeeklyHistory /\ n_weekly > 0
        THEN HarmonicColumns(168, n_weekly) ELSE <<>>)
    \o (IF N_history >= BiweeklyHistory /\ n_weekly > 0
        THEN HarmonicColumns(336, n_weekly) ELSE <<>>)

\* _build_fourier_matrix, lines 470-494: the columns of the design matrix
build_fourier_matrix(n_daily, n_weekly, N_history) ==
       <<[period |-> 0, harmonic |-> 0, trig |-> "one"]>>
    \o HarmonicColumns(24, n_daily)
    \o (IF N_history >= WeeklyHistory /\ n_weekly > 0
        THEN HarmonicColumns(168, n_weekly) ELSE <<>>)
    \o (IF N_history >= BiweeklyHistory /\ n_weekly > 0
        THEN HarmonicColumns(336, n_weekly) ELSE <<>>)

\* partial_r2, lines 530-536: 0.0 for a group without columns, else what the
\* refit on the intercept and the group's columns explains
partial_r2(col_slice, refit) == IF col_slice = {} THEN 0 ELSE refit

\* fit_fourier_forecast, lines 497-558.  np.linalg.lstsq returns one
\* coefficient per column of X; the column indices (from 0) of a group that
\* X does not have make line 533 raise IndexError.
fit_fourier_forecast(history, n_daily_harmonics, n_weekly_harmonics) ==
    LET N       == history.len
        X       == build_fourier_matrix(n_daily_harmonics, n_weekly_harmonics, N)
        nd      == n_daily_harmonics
        nw      == n_weekly_harmonics
        d_idx   == 1..(2 * nd)
        w_start == 1 + 2 * nd
        w_idx   == IF N >= WeeklyHistory
                   THEN w_start..(w_start + 2 * nw - 1) ELSE {}
        b_start == w_start + 2 * nw
        b_idx   == IF N >= BiweeklyHistory
                   THEN b_start..(b_start + 2 * nw - 1) ELSE {}
    IN  [raised         |-> \E i \in d_idx \cup w_idx \cup b_idx : i >= Len(X),
         n_coefficients |-> Len(X),
         weekly_columns   |-> Cardinality({i \in 1..Len(X) : X[i].period = 168}),
         biweekly_columns |-> Cardinality({i \in 1..Len(X) : X[i].period = 336}),
         residual_std   |-> history.residual_std,
         r2_daily       |-> partial_r2(d_idx, history.r2_daily),
         r2_weekly      |-> partial_r2(w_idx, history.r2_weekly),
         r2_biweekly    |-> partial_r2(b_idx, history.r2_biweekly)]

\* round(max(0.0, (current - min_g) / current * 100.0), 1); current = 0
\* divides by zero
SavingsPct(current, min_g) ==
    IF current = 0 THEN [raised |-> TRUE, pct |-> 0]
    ELSE [raised |-> FALSE,
          pct    |-> IF (current > min_g) = (current > 0) /\ current # min_g
                     THEN RoundScaled(Abs(current - min_g), Abs(current), 1000)
                     ELSE 0]

\* Python's min(a, b) and max(a, b) on exact rationals
MinRat(a, b) == IF RatLT(b, a) THEN b ELSE a
MaxRat(a, b) == IF RatLT(a, b) THEN b ELSE a

\* lines 598-599
BaseConfidence(residual_std, fcast_range) ==
    IF fcast_range > 0
    THEN MaxRat(Rat(0, 1),
                MinRat(Rat(1, 1), Rat(fcast_range - residual_std, fcast_range)))
    ELSE Rat(1, 2)

\* lines 603-607
VOL_CEILING == 100
VOLATILITY_WEIGHT == Rat(2, 5)

VolDiscountMutant(volatility) ==
    Rat(VOLATILITY_WEIGHT.n * volatility, VOLATILITY_WEIGHT.d * VOL_CEILING)

VolDiscount(volatility) ==
    LET m == MinRat(Rat(1, 1), Rat(volatility, VOL_CEILING))
    IN  Rat(VOLATILITY_WEIGHT.n * m.n, VOLATILITY_WEIGHT.d * m.d)

\* line 608: max(0.0, base_conf * (1.0 - vol_discount))
FinalConfidence(base_conf, volatility) ==
    LET vd == VolDiscount(volatility)
    IN  MaxRat(Rat(0, 1), Rat(base_conf.n * (vd.d - vd.n), base_conf.d * vd.d))

InsufficientHistoryMutant(history) == history.len < MinHistory - 1

\* line 579
InsufficientHistory(history) == history.len < MinHistory

\* what forecast_optimal_window returns (the four values and the metadata)
\* when it fits nothing
NoForecast ==
    [raised |-> FALSE, raised_at |-> 0, opt_wait |-> 0, opt_conf |-> 0,
     savings_pct |-> 0, error |-> "insufficient_history", fitted |-> FALSE,
     base_conf |-> Rat(0, 1), confidence |-> Rat(0, 1),
     n_coefficients |-> 0, n_cols |-> 0, truncated |-> FALSE, padded |-> FALSE,
     weekly_columns |-> 0, biweekly_columns |-> 0,
     r2_daily |-> 0, r2_weekly |-> 0, r2_biweekly |-> 0]

\* lines 579-632; line 591 truncates the coefficient vector to the n_cols
\* columns of the projection matrix if it is longer and pads it with zeros
\* if it is shorter.  When line 596 raises nothing is returned: the record
\* then keeps what the fit and the projection had done before.
forecast_optimal_window(history, current_intensity, n_daily_harmonics, n_weekly_harmonics) ==
    IF InsufficientHistory(history) THEN NoForecast
    ELSE LET fit      == fit_fourier_forecast(history, n_daily_harmonics,
                                              n_weekly_harmonics)
             X_future == build_fourier_matrix(n_daily_harmonics,
                                              n_weekly_harmonics, history.len)
             sv       == SavingsPct(current_intensity, history.fit_min_g)
             base     == BaseConfidence(history.residual_std, history.fcast_range)
             conf     == FinalConfidence(base, history.volatility)
         IN  IF fit.raised
             THEN [NoForecast EXCEPT !.raised = TRUE, !.raised_at = 533,
                                     !.error = "none"]
             ELSE [raised         |-> sv.raised,
                   raised_at      |-> IF sv.raised THEN 596 ELSE 0,
                   opt_wait       |-> IF sv.raised THEN 0 ELSE history.fit_min_idx,
                   opt_conf       |-> IF sv.raised THEN 0
                                      ELSE RoundScaled(conf.n, conf.d, 1000),
                   savings_pct    |-> sv.pct,
                   error          |-> "none",
                   fitted         |-> TRUE,
                   base_conf      |-> IF sv.raised THEN Rat(0, 1) ELSE base,
                   confidence     |-> IF sv.raised THEN Rat(0, 1) ELSE conf,
                   n_coefficients |-> fit.n_coefficients,
                   n_cols         |-> Len(X_future),
                   truncated      |-> fit.n_coefficients > Len(X_future),
                   padded         |-> fit.n_coefficients < Len(X_future),
                   weekly_columns   |-> fit.weekly_columns,
                   biweekly_columns |-> fit.biweekly_columns,
                   r2_daily       |-> fit.r2_daily,
                   r2_weekly      |-> fit.r2_weekly,
                   r2_biweekly    |-> fit.r2_biweekly]

\* a history of n samples and what the fit yields on it
History(n, min_idx, min_g, residual_std, fcast_range, volatility) ==
    [len |-> n, fit_min_idx |-> min_idx, fit_min_g |-> min_g,
     residual_std |-> residual_std, fcast_range |-> fcast_range,
     volatility |-> volatility,
     r2_daily |-> 900, r2_weekly |-> 50, r2_biweekly |-> 20]

\* a history too short to be fitted
ShortHistory(n) == History(n, 0, 0, 0, 0, 0)

(***************************************************************************)
(* compute_embodied_carbon, lines 639-652, compute_lifecycle_emissions,    *)
(* lines 683-702, and compute_carbon_diff, lines 709-721.  Masses are in   *)
(* units of 1e-4 kg.                                                       *)
(***************************************************************************)
GPU_LIFETIME_HOURS == 35000
GPU_UTILISATION_RATE == Rat(7, 10)
CRUSOE_INTENSITY_G_KWH == 50

EmbodiedOf(gpu) ==
    IF gpu \in DOMAIN GPU_EMBODIED_KG THEN GPU_EMBODIED_KG[gpu]
    ELSE GPU_EMBODIED_KG["A100"]

compute_embodied_carbon(gpu, hours) ==
    LET lifetime == (GPU_LIFETIME_HOURS * GPU_UTILISATION_RATE.n)
                        \div GPU_UTILISATION_RATE.d
    IN  [embodied_kg    |-> RoundScaled(EmbodiedOf(gpu) * hours, lifetime, 10000),
         embodied_sigma |-> RoundScaled(EmbodiedOf(gpu) * hours * 3, lifetime, 1000)]

\* with the default model_params_billions = 7, queries_per_day = 10000 and
\* deployment_months = 12: inference_kwh = 25.2; the result is in 1e-3 kg
compute_lifecycle_emissions(operational_kg, embodied_kg, carbon_intensity) ==
    RoundScaled(operational_kg + embodied_kg + 252 * carbon_intensity, 10, 1)

\* round(n / d * scale) for any sign of n and d # 0
RoundSigned(n, d, scale) ==
    IF (n < 0) = (d < 0) THEN RoundScaled(Abs(n), Abs(d), scale)
    ELSE -RoundScaled(Abs(n), Abs(d), scale)

\* previous_kg is <<>> for None; delta_pct is in units of 0.01 %
compute_carbon_diff(current_kg, previous_kg) ==
    IF previous_kg = <<>> \/ previous_kg = <<0>>
    THEN [delta_kg |-> 0, delta_pct |-> 0, direction |-> "baseline"]
    ELSE LET delta == current_kg - previous_kg[1]
         IN  [delta_kg  |-> delta,
              delta_pct |-> RoundSigned(delta, previous_kg[1], 10000),
              direction |-> IF delta > 0 THEN "increase" ELSE "decrease"]

(***************************************************************************)
(* estimate_emissions, lines 836-961.                                      *)
(***************************************************************************)
\* the largest r in lo..hi with r * r <= n
RECURSIVE SqrtBetween(_, _, _)
SqrtBetween(n, lo, hi) ==
    IF lo = hi THEN lo
    ELSE LET mid == (lo + hi + 1) \div 2
         IN  IF mid * mid <= n THEN SqrtBetween(n, mid, hi)
             ELSE SqrtBetween(n, lo, mid - 1)

\* math.sqrt, to the nearest integer
Sqrt(n) ==
    LET r == SqrtBetween(n, 0, Min(n, 46340))
    IN  IF n - r * r > r THEN r + 1 ELSE r

EstFailure(line) ==
    [raised |-> TRUE, raised_at |-> line]

\* lines 867-878 on the results of the four models
PhysicsOf(in, p, thr, cp, emb) ==
    LET mag == RoundScaled(thr.energy_kwh * p.pue, 10000000, Abs(in.carbon_intensity))
        op  == IF in.carbon_intensity < 0 THEN -mag ELSE mag
        cop == RoundScaled(thr.energy_kwh * cp.pue, 10000000, CRUSOE_INTENSITY_G_KWH)
    IN  IF p.raised THEN EstFailure(864)
        ELSE IF thr.raised THEN EstFailure(866)
        ELSE IF cp.raised THEN EstFailure(871)
        ELSE [raised              |-> FALSE,
              pue                 |-> p.pue,
              pue_sigma           |-> p.pue_sigma,
              throttle_pct        |-> thr.throttle_pct,
              throttle_is_nan     |-> thr.pct_is_nan,
              operational_kg      |-> op,
              embodied_kg         |-> emb.embodied_kg,
              embodied_sigma      |-> emb.embodied_sigma,
              emissions_kg        |-> op + emb.embodied_kg,
              crusoe_emissions_kg |-> cop + emb.embodied_kg]

\* lines 864-878: the physics of the run and of the alternative, for each
\* outcome of the throttle model
EstPhysics(in) ==
    {PhysicsOf(in,
               compute_pue(in.ambient_temp_c, in.is_crusoe),
               thr,
               compute_pue(in.ambient_temp_c, TRUE),
               compute_embodied_carbon(in.gpu, in.hours))
        : thr \in compute_throttle_adjustment(in.gpu, in.hours, in.ambient_temp_c)}

\* lines 881-890: the quadrature of the relative errors of PUE and grid
\* intensity (in units of 1e-4), then of sigma_op and the embodied sigma;
\* intensity_sigma / carbon_intensity divides by zero for carbon_intensity = 0.
\* Only the squares of the relative intensity error and of sigma_op are
\* used, so their magnitudes are kept.
EstSigma(in, ph, watttime_data) ==
    LET intensity_sigma == IF watttime_data.source = "watttime"
                           THEN watttime_data.intensity_sigma
                           ELSE in.carbon_intensity * 10
    IN  IF in.carbon_intensity = 0 \/ ph.pue = 0 THEN EstFailure(888)
        ELSE LET rel_pue == RoundScaled(ph.pue_sigma, ph.pue, 10000)
                 rel_int == RoundScaled(Abs(intensity_sigma),
                                        Abs(in.carbon_intensity), 100)
                 rel     == Sqrt(rel_pue * rel_pue + rel_int * rel_int)
                 sigma_op == RoundScaled(Abs(ph.operational_kg), 10000, rel)
             IN  [raised          |-> FALSE,
                  intensity_sigma |-> intensity_sigma,
                  emissions_sigma |-> Sqrt(sigma_op * sigma_op
                                             + ph.embodied_sigma * ph.embodied_sigma)]

\* lines 892-913: the live forecast if it has at least 24 points, else the
\* harmonic fit of the history
HasLiveForecastMutant(watttime_forecast) == watttime_forecast.len > 24

\* line 894: len(watttime_forecast) >= 24
HasLiveForecast(watttime_forecast) == watttime_forecast.len >= 24

\* lines 894-913
EstForecast(in, watttime_forecast) ==
    IF HasLiveForecast(watttime_forecast)
    THEN LET sv == SavingsPct(100 * in.carbon_intensity, watttime_forecast.min_g)
         IN  IF sv.raised THEN EstFailure(898)
             ELSE [raised |-> FALSE, opt_wait |-> watttime_forecast.min_idx,
                   opt_conf |-> 900, savings_pct |-> sv.pct,
                   source |-> "watttime_forecast", error |-> "none"]
    ELSE LET f == forecast_optimal_window(in.intensity_history,
                                          100 * in.carbon_intensity,
                                          DefaultDailyHarmonics,
                                          DefaultWeeklyHarmonics)
         IN  IF f.raised THEN EstFailure(f.raised_at)
             ELSE [raised |-> FALSE, opt_wait |-> f.opt_wait,
                   opt_conf |-> f.opt_conf, savings_pct |-> f.savings_pct,
                   source |-> "fourier_fallback", error |-> f.error]

\* the payload of lines 935-961 (without the radiative forcing and the
\* volatility score) or the exception that ended the call
NoEst ==
    [raised |-> FALSE, raised_at |-> 0, emissions_kg |-> 0, emissions_sigma |-> 0,
     crusoe_emissions_kg |-> 0, operational_kg |-> 0, embodied_kg |-> 0,
     lifecycle_kg |-> 0, pue_used |-> 0, pue_sigma |-> 0,
     throttle_adjustment_pct |-> 0, throttle_is_nan |-> FALSE,
     carbon_intensity |-> 0, intensity_sigma |-> 0, optimal_window_hours |-> 0,
     optimal_window_confidence |-> 0, carbon_savings_pct |-> 0,
     carbon_diff |-> [delta_kg |-> 0, delta_pct |-> 0, direction |-> "baseline"],
     gate |-> NoGate, gate_status |-> "none", region |-> "none",
     forecast_source |-> "none", forecast_error |-> "none",
     intensity_source |-> "none", watttime_percent_clean |-> <<>>]

EstRaised(line) == [NoEst EXCEPT !.raised = TRUE, !.raised_at = line]

EstResult(in, ph, watttime_data, watttime_forecast) ==
        IF ph.raised THEN EstRaised(ph.raised_at)
        ELSE LET sg == EstSigma(in, ph, watttime_data)
             IN  IF sg.raised THEN EstRaised(sg.raised_at)
                 ELSE LET fc == EstForecast(in, watttime_forecast)
                      IN  IF fc.raised THEN EstRaised(fc.raised_at)
                          ELSE LET g == GateDecision(
                                     [emissions_kg              |-> ph.emissions_kg,
                                      emissions_sigma           |-> sg.emissions_sigma,
                                      monthly_budget_kg         |-> in.monthly_budget_kg,
                                      monthly_used_kg           |-> in.monthly_used_kg,
                                      optimal_window_hours      |-> fc.opt_wait,
                                      optimal_window_confidence |-> fc.opt_conf,
                                      carbon_savings_pct        |-> fc.savings_pct,
                                      crusoe_available          |-> in.crusoe_available,
                                      crusoe_emissions_kg       |-> ph.crusoe_emissions_kg])
                               IN
    [raised                    |-> FALSE,
     raised_at                 |-> 0,
     emissions_kg              |-> ph.emissions_kg,
     emissions_sigma           |-> sg.emissions_sigma,
     crusoe_emissions_kg       |-> ph.crusoe_emissions_kg,
     operational_kg            |-> ph.operational_kg,
     embodied_kg               |-> ph.embodied_kg,
     lifecycle_kg              |-> compute_lifecycle_emissions(
                                       ph.operational_kg, ph.embodied_kg,
                                       in.carbon_intensity),
     pue_used                  |-> ph.pue,
     pue_sigma                 |-> ph.pue_sigma,
     throttle_adjustment_pct   |-> ph.throttle_pct,
     throttle_is_nan           |-> ph.throttle_is_nan,
     carbon_intensity          |-> in.carbon_intensity,
     intensity_sigma           |-> sg.intensity_sigma,
     optimal_window_hours      |-> fc.opt_wait,
     optimal_window_confidence |-> fc.opt_conf,
     carbon_savings_pct        |-> fc.savings_pct,
     carbon_diff               |-> compute_carbon_diff(ph.emissions_kg,
                                                       in.previous_emissions_kg),
     gate                      |-> g,
     gate_status               |-> g.status,
     region                    |-> in.region,
     forecast_source           |-> fc.source,
     forecast_error            |-> fc.error,
     intensity_source          |-> watttime_data.source,
     watttime_percent_clean    |-> watttime_data.percent_clean]

\* one result for each outcome of the physics and each answer of the live
\* source to the two lookups, next to those answers
EstResults(in, physics) ==
    {[est  |-> EstResult(in, ph, watttime_data, watttime_forecast),
      live |-> [watttime_data |-> watttime_data,
                watttime_forecast |-> watttime_forecast]] :
        ph \in physics,
        watttime_data \in WattTimeIntensities(in.region),
        watttime_forecast \in WattTimeForecasts(in.region)}

(***************************************************************************)
(* Calls of estimate_emissions.  The inputs are those of the module's      *)
(* reference run (lines 978-993) and, for each, the values on the other    *)
(* side of a branch: no hours, no grid intensity, no budget, identifiers   *)
(* in no table, histories around the 48 points the fit needs, ambient      *)
(* temperatures at and above the clamp.                                    *)
(***************************************************************************)
ReferenceHours == 4
ReferenceAmbient == 18
ReferenceIntensity == 420
ReferenceBudget == 50
ReferenceUsed == 43
ReferenceHistory == 2160

Histories ==
    {ShortHistory(0), ShortHistory(MinHistory - 1),
     History(MinHistory, 0, 45000, 60, 100, 80),
     History(ReferenceHistory, 18, 27000, 15, 170, 62)}

EstInputs ==
    [gpu                   : {"A100", "H100", "unknown"},
     hours                 : {0, 1, ReferenceHours},
     region                : {"us-east-1", "unknown"},
     ambient_temp_c        : {2 * ReferenceAmbient, 2 * (T_HOT_C - 2), 2 * T_HOT_C},
     carbon_intensity      : {0, ReferenceIntensity},
     intensity_history     : Histories,
     monthly_budget_kg     : {0, ReferenceBudget * 10000},
     monthly_used_kg       : {ReferenceUsed * 10000},
     previous_emissions_kg : {<<>>, <<0>>, <<28000>>},
     is_crusoe             : BOOLEAN,
     crusoe_available      : BOOLEAN]

NoEstIn ==
    [gpu |-> "A100", hours |-> 0, region |-> "none", ambient_temp_c |-> 0,
     carbon_intensity |-> 0,
     intensity_history |-> ShortHistory(0),
     monthly_budget_kg |-> 0, monthly_used_kg |-> 0,
     previous_emissions_kg |-> <<>>, is_crusoe |-> FALSE,
     crusoe_available |-> FALSE]

(***************************************************************************)
(* Calls of estimate_emissions on the reference job with a grid intensity  *)
(* of either sign: the function takes any float.                           *)
(***************************************************************************)
SignedInputs ==
    [gpu                   : {"A100", "unknown"},
     hours                 : {1},
     region                : {"us-east-1", "unknown"},
     ambient_temp_c        : {2 * ReferenceAmbient},
     carbon_intensity      : {-ReferenceIntensity, ReferenceIntensity},
     intensity_history     : Histories,
     monthly_budget_kg     : {0, ReferenceBudget * 10000},
     monthly_used_kg       : {ReferenceUsed * 10000},
     previous_emissions_kg : {<<>>, <<28000>>},
     is_crusoe             : BOOLEAN,
     crusoe_available      : BOOLEAN]

InitEstimateSigned ==
    /\ pc = "est_call"
    /\ est_in \in SignedInputs
    /\ est = NoEst
    /\ fn_in = NoFn
    /\ fn_out = NoFn
    /\ live = NoLive
    /\ requests = <<>>
    /\ gate_in = NoGateIn
    /\ gate = NoGate
    /\ pue_in = NoPueIn
    /\ pue_out = NoPue
    /\ thr_in = NoThrottleIn
    /\ thr_out = NoThrottle

(***************************************************************************)
(* Direct calls of compute_gate_decision.                                  *)
(***************************************************************************)
InitGate ==
    /\ pc = "gate_call"
    /\ gate_in \in GateInputs
    /\ gate = NoGate
    /\ pue_in = NoPueIn
    /\ pue_out = NoPue
    /\ thr_in = NoThrottleIn
    /\ thr_out = NoThrottle
    /\ est_in = NoEstIn
    /\ est = NoEst
    /\ fn_in = NoFn
    /\ fn_out = NoFn
    /\ live = NoLive
    /\ requests = <<>>

InitGateCore ==
    /\ pc = "gate_call"
    /\ gate_in \in {WithDefaultOptions(c) : c \in CoreInputs}
    /\ gate = NoGate
    /\ pue_in = NoPueIn
    /\ pue_out = NoPue
    /\ thr_in = NoThrottleIn
    /\ thr_out = NoThrottle
    /\ est_in = NoEstIn
    /\ est = NoEst
    /\ fn_in = NoFn
    /\ fn_out = NoFn
    /\ live = NoLive
    /\ requests = <<>>

compute_gate_decision ==
    /\ pc = "gate_call"
    /\ gate' = GateDecision(gate_in)
    /\ pc' = "gate_done"
    /\ UNCHANGED <<gate_in, pue_in, pue_out, thr_in, thr_out, est_in, est,
                   fn_in, fn_out, live, requests>>

NextGate == compute_gate_decision

SpecGate == InitGate /\ [][NextGate]_vars

SpecGateCore == InitGateCore /\ [][NextGate]_vars

(***************************************************************************)
(* Calls of compute_gate_decision one after another in one process: fn_in  *)
(* and fn_out keep the inputs and the decision of the call before.         *)
(***************************************************************************)
MaxEarlierCalls == 1

\* jobs on every side of every threshold of a 10-unit budget with 8 used,
\* and with no budget, each with and without a clean window and an
\* alternative infrastructure
RepeatedInputs ==
    {[emissions_kg              |-> c.emissions_kg,
      emissions_sigma           |-> c.emissions_sigma,
      monthly_budget_kg         |-> c.monthly_budget_kg,
      monthly_used_kg           |-> 8,
      optimal_window_hours      |-> IF o.window THEN MaxWait ELSE 0,
      optimal_window_confidence |-> 900,
      carbon_savings_pct        |-> IF o.window THEN 440 ELSE 0,
      crusoe_available          |-> o.crusoe,
      crusoe_emissions_kg       |-> IF o.crusoe THEN 1 ELSE 0] :
        c \in [emissions_kg : {1, 3, 4, 5}, emissions_sigma : {0, 2},
               monthly_budget_kg : {0, 10}],
        o \in [window : BOOLEAN, crusoe : BOOLEAN]}

NoEarlierCall == [fn |-> "compute_gate_decision", calls |-> 0, in |-> NoGateIn]
NoEarlierDecision == [fn |-> "compute_gate_decision", out |-> NoGate]

InitGateRepeated ==
    /\ pc = "gate_call"
    /\ gate_in \in RepeatedInputs
    /\ gate = NoGate
    /\ fn_in = NoEarlierCall
    /\ fn_out = NoEarlierDecision
    /\ pue_in = NoPueIn
    /\ pue_out = NoPue
    /\ thr_in = NoThrottleIn
    /\ thr_out = NoThrottle
    /\ est_in = NoEstIn
    /\ est = NoEst
    /\ live = NoLive
    /\ requests = <<>>

\* the caller keeps the decision and calls again with other arguments
call_again ==
    /\ pc = "gate_done"
    /\ fn_in.calls < MaxEarlierCalls
    /\ fn_in' = [fn_in EXCEPT !.calls = @ + 1, !.in = gate_in]
    /\ fn_out' = [fn_out EXCEPT !.out = gate]
    /\ gate_in' \in RepeatedInputs
    /\ pc' = "gate_call"
    /\ UNCHANGED <<gate, pue_in, pue_out, thr_in, thr_out, est_in, est,
                   live, requests>>

NextGateRepeated == compute_gate_decision \/ call_again

SpecGateRepeated == InitGateRepeated /\ [][NextGateRepeated]_vars

(***************************************************************************)
(* Direct calls of compute_pue.                                            *)
(***************************************************************************)
InitPue ==
    /\ pc = "pue_call"
    /\ pue_in \in [ambient_temp_c : AmbientHalves, is_crusoe : BOOLEAN]
    /\ pue_out = NoPue
    /\ gate_in = NoGateIn
    /\ gate = NoGate
    /\ thr_in = NoThrottleIn
    /\ thr_out = NoThrottle
    /\ est_in = NoEstIn
    /\ est = NoEst
    /\ fn_in = NoFn
    /\ fn_out = NoFn
    /\ live = NoLive
    /\ requests = <<>>

call_compute_pue ==
    /\ pc = "pue_call"
    /\ pue_out' = compute_pue(pue_in.ambient_temp_c, pue_in.is_crusoe)
    /\ pc' = IF pue_out'.raised THEN "pue_raised" ELSE "pue_done"
    /\ UNCHANGED <<pue_in, gate_in, gate, thr_in, thr_out, est_in, est,
                   fn_in, fn_out, live, requests>>

NextPue == call_compute_pue

SpecPue == InitPue /\ [][NextPue]_vars

(***************************************************************************)
(* Direct calls of compute_throttle_adjustment.                            *)
(***************************************************************************)
InitThrottle ==
    /\ pc = "thr_call"
    /\ thr_in \in [gpu : Gpus, hours : 0..MaxHours, ambient_temp_c : ThrottleAmbients]
    /\ thr_out = NoThrottle
    /\ gate_in = NoGateIn
    /\ gate = NoGate
    /\ pue_in = NoPueIn
    /\ pue_out = NoPue
    /\ est_in = NoEstIn
    /\ est = NoEst
    /\ fn_in = NoFn
    /\ fn_out = NoFn
    /\ live = NoLive
    /\ requests = <<>>

call_compute_throttle_adjustment ==
    /\ pc = "thr_call"
    /\ thr_out' \in compute_throttle_adjustment(thr_in.gpu, thr_in.hours,
                                                thr_in.ambient_temp_c)
    /\ pc' = IF thr_out'.raised THEN "thr_raised" ELSE "thr_done"
    /\ UNCHANGED <<thr_in, gate_in, gate, pue_in, pue_out, est_in, est,
                   fn_in, fn_out, live, requests>>

NextThrottle == call_compute_throttle_adjustment

SpecThrottle == InitThrottle /\ [][NextThrottle]_vars

(***************************************************************************)
(* Direct calls of estimate_emissions.                                     *)
(***************************************************************************)
InitEstimate ==
    /\ pc = "est_call"
    /\ est_in \in EstInputs
    /\ est = NoEst
    /\ fn_in = NoFn
    /\ fn_out = NoFn
    /\ live = NoLive
    /\ requests = <<>>
    /\ gate_in = NoGateIn
    /\ gate = NoGate
    /\ pue_in = NoPueIn
    /\ pue_out = NoPue
    /\ thr_in = NoThrottleIn
    /\ thr_out = NoThrottle

estimate_emissions ==
    /\ pc = "est_call"
    /\ \E r \in EstResults(est_in, EstPhysics(est_in)) :
          /\ est' = r.est
          /\ live' = r.live
    /\ pc' = IF est'.raised THEN "est_raised" ELSE "est_done"
    /\ UNCHANGED <<est_in, gate_in, gate, pue_in, pue_out, thr_in, thr_out,
                   fn_in, fn_out, requests>>

NextEstimate == estimate_emissions

SpecEstimate == InitEstimate /\ [][NextEstimate]_vars

SpecEstimateSigned == InitEstimateSigned /\ [][NextEstimate]_vars

(***************************************************************************)
(* Direct calls of forecast_optimal_window.  The residual of a least-      *)
(* squares fit with an intercept is never larger than the spread of the    *)
(* data, so residual_std <= volatility.                                    *)
(***************************************************************************)
ForecastHistories ==
    {ShortHistory(n) : n \in {0, MinHistory - 1}}
      \cup {h \in {History(n, i, g, rs, fr, v) :
                     n \in {MinHistory, WeeklyHistory - 1, WeeklyHistory,
                            BiweeklyHistory - 1, BiweeklyHistory},
                     i \in {0, 18}, g \in {27000, 50000},
                     rs \in {0, 15, 120}, fr \in {0, 10, 160},
                     v \in {0, 50, 100, 150}} :
              h.residual_std <= h.volatility}

InitForecast ==
    /\ pc = "fc_call"
    /\ fn_in \in [fn                 : {"forecast_optimal_window"},
                  intensity_history  : ForecastHistories,
                  current_intensity  : {0, 100 * ReferenceIntensity},
                  n_daily_harmonics  : {0, 1, DefaultDailyHarmonics},
                  n_weekly_harmonics : {0, DefaultWeeklyHarmonics}]
    /\ fn_out = NoFn
    /\ gate_in = NoGateIn
    /\ gate = NoGate
    /\ pue_in = NoPueIn
    /\ pue_out = NoPue
    /\ thr_in = NoThrottleIn
    /\ thr_out = NoThrottle
    /\ est_in = NoEstIn
    /\ est = NoEst
    /\ live = NoLive
    /\ requests = <<>>

call_forecast_optimal_window ==
    /\ pc = "fc_call"
    /\ fn_out' = forecast_optimal_window(fn_in.intensity_history,
                                         fn_in.current_intensity,
                                         fn_in.n_daily_harmonics,
                                         fn_in.n_weekly_harmonics)
    /\ pc' = IF fn_out'.raised THEN "fc_raised" ELSE "fc_done"
    /\ UNCHANGED <<fn_in, gate_in, gate, pue_in, pue_out, thr_in, thr_out,
                   est_in, est, live, requests>>

NextForecast == call_forecast_optimal_window

SpecForecast == InitForecast /\ [][NextForecast]_vars

(***************************************************************************)
(* One evaluation of estimate_emissions from line 880 on, request by       *)
(* request.  fn_in is the environment of the evaluation, requests the log  *)
(* of the HTTP requests it has sent, each with the answer it got, live     *)
(* what the two lookups returned, fn_out what the evaluation returned.     *)
(* Every requests.get has a timeout (5 s or 10 s), so an answer or an      *)
(* exception always comes.                                                 *)
(***************************************************************************)
Pending == [kind |-> "pending", status |-> 0, parsable |-> FALSE, body |-> <<>>]
TimedOut == [kind |-> "timeout", status |-> 0, parsable |-> FALSE, body |-> <<>>]

\* answers to a login request: parsable means a JSON body with a "token"
LoginResponses ==
    {TimedOut} \cup [kind : {"reply"}, status : {200, 401},
                     parsable : BOOLEAN, body : {<<>>}]

\* answers to a signal-index request: parsable means a JSON body with a
\* non-empty "data" list of objects; the body is the "value" of the first
\* one as a number, if it has one
SignalResponses ==
    {TimedOut}
      \cup [kind : {"reply"}, status : {200, 500}, parsable : {FALSE}, body : {<<>>}]
      \cup [kind : {"reply"}, status : {200, 500}, parsable : {TRUE},
            body : {<<>>, <<0>>, <<100>>}]

\* answers to a forecast request: parsable means a JSON object whose points
\* are objects with numeric values; the body is the number of 5-minute
\* points, the hour of the lowest sample and its signal index
ForecastResponses ==
    {TimedOut}
      \cup [kind : {"reply"}, status : {200, 500}, parsable : {FALSE}, body : {<<>>}]
      \cup [kind : {"reply"}, status : {200, 500}, parsable : {TRUE},
            body : {<<[points |-> n, min_idx |-> 0, pct |-> 0]>> :
                        n \in {0} \cup ForecastPoints}]

Request(lookup, url) == [lookup |-> lookup, url |-> url, resp |-> Pending]

\* the log with the answer to the request sent last
Answered(log, resp) == [log EXCEPT ![Len(log)].resp = resp]

\* lines 224-232 and 294-301: the lookup is attempted at all
LookupAttempted(env) ==
    /\ env.REQUESTS_AVAILABLE
    /\ env.user /\ env.pwd
    /\ env.region \in DOMAIN WATTTIME_BA

IntensityLoginAcceptedMutant(resp) == resp.kind = "reply" /\ resp.parsable

\* lines 235-243: no exception, status 200 and a token in the body
IntensityLoginAccepted(resp) ==
    resp.kind = "reply" /\ resp.status = 200 /\ resp.parsable

\* lines 303-305: no exception and a token in the body; the status of the
\* login reply is not looked at
ForecastLoginAccepted(resp) == resp.kind = "reply" /\ resp.parsable

\* lines 252-255 and 317-320
DataAccepted(resp) == resp.kind = "reply" /\ resp.status = 200 /\ resp.parsable

\* line 255: .get("value", 50)
RawOf(resp) == IF resp.body = <<>> THEN 50 ELSE resp.body[1]

NoEval == [returned |-> FALSE, raised_at |-> 0, intensity_source |-> "none",
           intensity_sigma |-> 0, forecast_source |-> "none"]

InitLive ==
    /\ pc = "ev_880"
    /\ fn_in \in [fn                 : {"estimate_emissions"},
                  region             : {"us-east-1", "unknown"},
                  REQUESTS_AVAILABLE : BOOLEAN,
                  user               : BOOLEAN,
                  pwd                : BOOLEAN,
                  carbon_intensity   : {0, ReferenceIntensity}]
    /\ fn_out = NoEval
    /\ live = NoLive
    /\ requests = <<>>
    /\ gate_in = NoGateIn
    /\ gate = NoGate
    /\ pue_in = NoPueIn
    /\ pue_out = NoPue
    /\ thr_in = NoThrottleIn
    /\ thr_out = NoThrottle
    /\ est_in = NoEstIn
    /\ est = NoEst

\* get_watttime_intensity up to the login request, lines 224-239
intensity_begin ==
    /\ pc = "ev_880"
    /\ IF LookupAttempted(fn_in)
       THEN /\ requests' = Append(requests, Request("intensity", "login"))
            /\ pc' = "wi_login"
            /\ UNCHANGED live
       ELSE /\ live' = [live EXCEPT !.watttime_data = fallback_intensity(fn_in.region)]
            /\ pc' = "ev_881"
            /\ UNCHANGED requests
    /\ UNCHANGED <<fn_in, fn_out, gate_in, gate, pue_in, pue_out, thr_in,
                   thr_out, est_in, est>>

\* lines 240-251: the login answer, and the signal-index request after it
intensity_login_answer ==
    /\ pc = "wi_login"
    /\ \E resp \in LoginResponses :
          IF IntensityLoginAccepted(resp)
          THEN /\ requests' = Append(Answered(requests, resp),
                                     Request("intensity", "signal-index"))
               /\ pc' = "wi_signal"
               /\ UNCHANGED live
          ELSE /\ requests' = Answered(requests, resp)
               /\ live' = [live EXCEPT !.watttime_data = fallback_intensity(fn_in.region)]
               /\ pc' = "ev_881"
    /\ UNCHANGED <<fn_in, fn_out, gate_in, gate, pue_in, pue_out, thr_in,
                   thr_out, est_in, est>>

\* lines 252-273: the signal-index answer
intensity_signal_answer ==
    /\ pc = "wi_signal"
    /\ \E resp \in SignalResponses :
          /\ requests' = Answered(requests, resp)
          /\ live' = [live EXCEPT !.watttime_data =
                         IF DataAccepted(resp)
                         THEN live_intensity(fn_in.region, RawOf(resp))
                         ELSE fallback_intensity(fn_in.region)]
    /\ pc' = "ev_881"
    /\ UNCHANGED <<fn_in, fn_out, gate_in, gate, pue_in, pue_out, thr_in,
                   thr_out, est_in, est>>

\* lines 881-890: the uncertainty propagation divides by carbon_intensity
propagate_sigma ==
    /\ pc = "ev_881"
    /\ IF fn_in.carbon_intensity = 0
       THEN /\ fn_out' = [fn_out EXCEPT !.raised_at = 888]
            /\ pc' = "ev_raised"
       ELSE /\ fn_out' = [fn_out EXCEPT
                            !.intensity_source = live.watttime_data.source,
                            !.intensity_sigma =
                                IF live.watttime_data.source = "watttime"
                                THEN live.watttime_data.intensity_sigma
                                ELSE 10 * fn_in.carbon_intensity]
            /\ pc' = "ev_892"
    /\ UNCHANGED <<fn_in, live, requests, gate_in, gate, pue_in, pue_out,
                   thr_in, thr_out, est_in, est>>

\* get_watttime_forecast up to the login request, lines 294-304
forecast_begin ==
    /\ pc = "ev_892"
    /\ IF LookupAttempted(fn_in)
       THEN /\ requests' = Append(requests, Request("forecast", "login"))
            /\ pc' = "wf_login"
            /\ UNCHANGED live
       ELSE /\ live' = [live EXCEPT !.watttime_forecast = NoSeries]
            /\ pc' = "ev_894"
            /\ UNCHANGED requests
    /\ UNCHANGED <<fn_in, fn_out, gate_in, gate, pue_in, pue_out, thr_in,
                   thr_out, est_in, est>>

\* lines 304-316: the login answer, and the forecast request after it
forecast_login_answer ==
    /\ pc = "wf_login"
    /\ \E resp \in LoginResponses :
          IF ForecastLoginAccepted(resp)
          THEN /\ requests' = Append(Answered(requests, resp),
                                     Request("forecast", "forecast"))
               /\ pc' = "wf_forecast"
               /\ UNCHANGED live
          ELSE /\ requests' = Answered(requests, resp)
               /\ live' = [live EXCEPT !.watttime_forecast = NoSeries]
               /\ pc' = "ev_894"
    /\ UNCHANGED <<fn_in, fn_out, gate_in, gate, pue_in, pue_out, thr_in,
                   thr_out, est_in, est>>

\* lines 317-328: the forecast answer
forecast_data_answer ==
    /\ pc = "wf_forecast"
    /\ \E resp \in ForecastResponses :
          /\ requests' = Answered(requests, resp)
          /\ live' = [live EXCEPT !.watttime_forecast =
                         IF DataAccepted(resp) /\ resp.body[1].points > 0
                         THEN HourlySeries(fn_in.region, resp.body[1].points,
                                           resp.body[1].min_idx, resp.body[1].pct)
                         ELSE NoSeries]
    /\ pc' = "ev_894"
    /\ UNCHANGED <<fn_in, fn_out, gate_in, gate, pue_in, pue_out, thr_in,
                   thr_out, est_in, est>>

\* lines 894-961: the scheduling outputs, the gate and the payload
evaluation_returns ==
    /\ pc = "ev_894"
    /\ fn_out' = [fn_out EXCEPT
                    !.returned = TRUE,
                    !.forecast_source =
                        IF HasLiveForecast(live.watttime_forecast)
                        THEN "watttime_forecast" ELSE "fourier_fallback"]
    /\ pc' = "ev_returned"
    /\ UNCHANGED <<fn_in, live, requests, gate_in, gate, pue_in, pue_out,
                   thr_in, thr_out, est_in, est>>

NextLive ==
    \/ intensity_begin
    \/ intensity_login_answer
    \/ intensity_signal_answer
    \/ propagate_sigma
    \/ forecast_begin
    \/ forecast_login_answer
    \/ forecast_data_answer
    \/ evaluation_returns

SpecLive == InitLive /\ [][NextLive]_vars

\* the evaluation is one sequential call: every step it can take, it takes
SpecLiveFair == SpecLive /\ WF_vars(NextLive)

(***************************************************************************)
(* Direct calls of compute_carbon_diff, masses in units of 1e-4 kg.        *)
(***************************************************************************)
MaxCurrentKg == 9
MaxPreviousKg == 5

InitDiff ==
    /\ pc = "diff_call"
    /\ fn_in \in [fn          : {"compute_carbon_diff"},
                  current_kg  : 0..MaxCurrentKg,
                  previous_kg : {<<>>} \cup
                                {<<v>> : v \in (-MaxPreviousKg)..MaxPreviousKg}]
    /\ fn_out = NoFn
    /\ gate_in = NoGateIn
    /\ gate = NoGate
    /\ pue_in = NoPueIn
    /\ pue_out = NoPue
    /\ thr_in = NoThrottleIn
    /\ thr_out = NoThrottle
    /\ est_in = NoEstIn
    /\ est = NoEst
    /\ live = NoLive
    /\ requests = <<>>

call_compute_carbon_diff ==
    /\ pc = "diff_call"
    /\ fn_out' = compute_carbon_diff(fn_in.current_kg, fn_in.previous_kg)
    /\ pc' = "diff_done"
    /\ UNCHANGED <<fn_in, gate_in, gate, pue_in, pue_out, thr_in, thr_out,
                   est_in, est, live, requests>>

NextDiff == call_compute_carbon_diff

SpecDiff == InitDiff /\ [][NextDiff]_vars

(***************************************************************************)
(* Calls with identifiers that may be in no table: a caller asks for the   *)
(* throttle adjustment and the embodied carbon of an accelerator, then for *)
(* the conversion of a signal index and the static fallback of a region,   *)
(* in the order in which estimate_emissions does (lines 866, 871, 880).    *)
(***************************************************************************)
NoLookups ==
    [throttle  |-> NoThrottle,
     embodied  |-> [embodied_kg |-> 0, embodied_sigma |-> 0],
     g_kwh     |-> 0,
     fallback  |-> [source |-> "none"]]

InitIdentifiers ==
    /\ pc = "id_throttle"
    /\ fn_in \in [fn             : {"identifiers"},
                  gpu            : {"A100", "H100", "unknown", "TPU-v4"},
                  region         : {"us-east-1", "unknown", "mars-north-1"},
                  hours          : 0..MaxHours,
                  ambient_temp_c : {2 * ReferenceAmbient, 2 * 85},
                  pct            : Percentiles]
    /\ fn_out = NoLookups
    /\ gate_in = NoGateIn
    /\ gate = NoGate
    /\ pue_in = NoPueIn
    /\ pue_out = NoPue
    /\ thr_in = NoThrottleIn
    /\ thr_out = NoThrottle
    /\ est_in = NoEstIn
    /\ est = NoEst
    /\ live = NoLive
    /\ requests = <<>>

throttle_of_identifier ==
    /\ pc = "id_throttle"
    /\ \E r \in compute_throttle_adjustment(fn_in.gpu, fn_in.hours,
                                            fn_in.ambient_temp_c) :
          /\ fn_out' = [fn_out EXCEPT !.throttle = r]
          /\ pc' = IF r.raised THEN "id_raised" ELSE "id_embodied"
    /\ UNCHANGED <<fn_in, gate_in, gate, pue_in, pue_out, thr_in, thr_out,
                   est_in, est, live, requests>>

embodied_of_identifier ==
    /\ pc = "id_embodied"
    /\ fn_out' = [fn_out EXCEPT
                    !.embodied = compute_embodied_carbon(fn_in.gpu, fn_in.hours)]
    /\ pc' = "id_region"
    /\ UNCHANGED <<fn_in, gate_in, gate, pue_in, pue_out, thr_in, thr_out,
                   est_in, est, live, requests>>

intensity_of_identifier ==
    /\ pc = "id_region"
    /\ fn_out' = [fn_out EXCEPT
                    !.g_kwh    = percentile_to_g_kwh(fn_in.region, 100 * fn_in.pct),
                    !.fallback = fallback_intensity(fn_in.region)]
    /\ pc' = "id_done"
    /\ UNCHANGED <<fn_in, gate_in, gate, pue_in, pue_out, thr_in, thr_out,
                   est_in, est, live, requests>>

NextIdentifiers ==
    \/ throttle_of_identifier
    \/ embodied_of_identifier
    \/ intensity_of_identifier

SpecIdentifiers == InitIdentifiers /\ [][NextIdentifiers]_vars

(***************************************************************************)
(* Helpers of the properties.                                              *)
(***************************************************************************)
OptionIds(g) == {g.resolution_options[i].id : i \in 1..Len(g.resolution_options)}

CountId(g, id) ==
    Cardinality({i \in 1..Len(g.resolution_options) : g.resolution_options[i].id = id})

\* the order in which compute_gate_decision generates the options
GenerationIndex(id) ==
    CASE id = "wait" -> 1
      [] id = "crusoe" -> 2
      [] id = "reduce_epochs" -> 3
      [] id = "override" -> 4

\* pass < warn < soft_block < hard_block
TierRank(status) ==
    CASE status = "pass" -> 0
      [] status = "warn" -> 1
      [] status = "soft_block" -> 2
      [] status = "hard_block" -> 3
      [] OTHER -> 4

\* The ordered rule as the specification words it, with
\* fraction = overage / budget: the fraction is 0 exactly when the overage
\* is 0, and fraction <= p% exactly when 100 * overage <= p * budget.
RuleStatus(estimate, sigma, budget, used) ==
    LET remaining == budget - used
        overage   == Max(0, estimate - remaining)
        lower     == Max(0, (estimate - sigma) - remaining)
        upper     == Max(0, (estimate + sigma) - remaining)
    IN  IF lower = 0 /\ upper > 0 THEN "uncertain"
        ELSE IF overage = 0 THEN "pass"
        ELSE IF 100 * overage <= 10 * budget THEN "warn"
        ELSE IF 100 * overage <= 20 * budget THEN "soft_block"
        ELSE "hard_block"

(***************************************************************************)
(* C1: compute_gate_decision assigns the status by the ordered rule        *)
(* (uncertain, pass, warn <= 10%, soft_block <= 20%, hard_block) on        *)
(* fraction = overage / budget, and the status is one of the five values.  *)
(***************************************************************************)
C1_StatusByOrderedRule ==
    pc = "gate_done" =>
        /\ gate.status \in Statuses
        /\ gate.status = RuleStatus(gate_in.emissions_kg, gate_in.emissions_sigma,
                                    gate_in.monthly_budget_kg, gate_in.monthly_used_kg)

(***************************************************************************)
(* C2 as stated: the status is 'uncertain' iff the interval                *)
(* [estimate - sigma, estimate + sigma] crosses the overage = 0 boundary   *)
(* and its upper end crosses no other tier boundary (stays within the      *)
(* warn tier), and the non-uncertain statuses are monotonic in the         *)
(* overage fraction.                                                       *)
(***************************************************************************)
CrossesZeroBoundary(in) ==
    /\ in.emissions_kg - in.emissions_sigma <= Remaining(in)
    /\ in.emissions_kg + in.emissions_sigma > Remaining(in)

\* the upper end of the interval lies beyond the warn threshold
CrossesOtherBoundary(in) ==
    /\ in.monthly_budget_kg > 0
    /\ 100 * Max(0, in.emissions_kg + in.emissions_sigma - Remaining(in))
          > THRESHOLD_WARN * in.monthly_budget_kg

MonotoneInFraction ==
    \A b \in CoreInputs :
        (/\ gate.status # "uncertain"
         /\ GateStatus(b) # "uncertain"
         /\ RatLE(gate.overage_frac, OverageFrac(b)))
            => TierRank(gate.status) <= TierRank(GateStatus(b))

C2_UncertainIffOnlyZeroBoundary ==
    pc = "gate_done" =>
        /\ gate.status = "uncertain"
              <=> (CrossesZeroBoundary(gate_in) /\ ~CrossesOtherBoundary(gate_in))
        /\ MonotoneInFraction

(***************************************************************************)
(* C2 amended: the status is 'uncertain' iff the interval crosses the      *)
(* overage = 0 boundary (lower overage 0, upper overage positive), whether *)
(* or not its upper end also crosses the warn or soft-block threshold; in  *)
(* every non-uncertain case the status is monotonic non-decreasing in the  *)
(* overage fraction of the decision.                                       *)
(***************************************************************************)
C2_UncertainIffZeroBoundary ==
    pc = "gate_done" =>
        /\ gate.status = "uncertain" <=> CrossesZeroBoundary(gate_in)
        /\ MonotoneInFraction

C2_Witness ==
    /\ pc = "gate_done"
    /\ gate.status = "uncertain"
    /\ gate_in.monthly_budget_kg > 0
    /\ CrossesOtherBoundary(gate_in)

(***************************************************************************)
(* C3: the returned options are sorted by savings_pct in descending order  *)
(* and options with equal savings_pct keep their generation order.         *)
(***************************************************************************)
C3_SortedStable ==
    pc = "gate_done" =>
        \A i, j \in 1..Len(gate.resolution_options) :
            i < j =>
                LET a == gate.resolution_options[i]
                    b == gate.resolution_options[j]
                IN  /\ RatLE(b.savings_pct, a.savings_pct)
                    /\ RatEQ(a.savings_pct, b.savings_pct)
                          => GenerationIndex(a.id) < GenerationIndex(b.id)

C3_Witness ==
    /\ pc = "gate_done"
    /\ Len(gate.resolution_options) = 4
    /\ \E i \in 1..3 :
          RatEQ(gate.resolution_options[i].savings_pct,
                gate.resolution_options[i + 1].savings_pct)

(***************************************************************************)
(* C4: the options contain 'reduce_epochs' exactly once (so the list is    *)
(* never empty) and contain 'override' iff the status is soft_block,       *)
(* hard_block or uncertain.                                                *)
(***************************************************************************)
C4_ReduceAlways_OverrideIffBlocked ==
    pc = "gate_done" =>
        /\ CountId(gate, "reduce_epochs") = 1
        /\ Len(gate.resolution_options) >= 1
        /\ CountId(gate, "override") <= 1
        /\ "override" \in OptionIds(gate) <=> gate.status \notin {"pass", "warn"}

C4_Witness ==
    /\ pc = "gate_done"
    /\ gate.status = "warn"
    /\ "override" \notin OptionIds(gate)
    /\ "reduce_epochs" \in OptionIds(gate)

(***************************************************************************)
(* C5: 'wait' is offered iff optimal_window_hours > 0 and the forecast     *)
(* savings exceed 5%; 'crusoe' is offered iff crusoe_available and         *)
(* crusoe_emissions_kg < emissions_kg (absent when equal or unavailable).  *)
(***************************************************************************)
C5_WaitAndCrusoeConditions ==
    pc = "gate_done" =>
        /\ "wait" \in OptionIds(gate)
              <=> (gate_in.optimal_window_hours > 0 /\ gate_in.carbon_savings_pct > 50)
        /\ "crusoe" \in OptionIds(gate)
              <=> (gate_in.crusoe_available
                   /\ gate_in.crusoe_emissions_kg < gate_in.emissions_kg)

C5_Witness ==
    /\ pc = "gate_done"
    /\ gate_in.optimal_window_hours > 0
    /\ gate_in.carbon_savings_pct = 50
    /\ "wait" \notin OptionIds(gate)
    /\ gate_in.crusoe_available
    /\ gate_in.emissions_kg > 0
    /\ gate_in.crusoe_emissions_kg = gate_in.emissions_kg
    /\ "crusoe" \notin OptionIds(gate)

(***************************************************************************)
(* C6: estimate_emissions returns a result payload and never raises, for   *)
(* every input combination (carbon_intensity = 0, hours = 0, budget = 0,   *)
(* unknown gpu or region, empty or short history, unreachable live         *)
(* source): no call ends in an exception.                                  *)
(***************************************************************************)
C6_EstimateNeverRaises ==
    /\ pc # "est_raised"
    /\ pc = "est_done" => ~est.raised

(***************************************************************************)
(* C7: for every ambient temperature (below 34 C and, through the clamp,   *)
(* at or above it), with or without the alternative cooling source,        *)
(* compute_pue returns a finite PUE that is >= 1.0.                        *)
(***************************************************************************)
C7_PueFiniteAtLeastOne ==
    pc \in {"pue_done", "pue_raised"} =>
        /\ ~pue_out.raised
        /\ pue_out.pue >= 10000

(***************************************************************************)
(* C8: compute_pue never divides by zero and never evaluates a negative    *)
(* COP, in the point estimate and in the two re-evaluations at T_cold + 2  *)
(* and T_cold - 2.                                                         *)
(***************************************************************************)
C8_NoZeroDivisionNoNegativeCop ==
    pc \in {"pue_done", "pue_raised"} =>
        /\ ~pue_out.raised
        /\ \A k \in 1..Len(pue_out.cops) :
              /\ ~CopDividesByZero(pue_out.cops[k])
              /\ ~CopNegative(pue_out.cops[k])

(***************************************************************************)
(* C9: for every ambient temperature t the geothermal PUE is lower than or *)
(* equal to the ambient-air PUE, compute_pue(t, TRUE) <=                   *)
(* compute_pue(t, FALSE), and the geothermal value does not depend on t.   *)
(***************************************************************************)
C9_GeothermalPueNeverWorse ==
    (pc = "pue_done" /\ ~pue_in.is_crusoe) =>
        LET geo == compute_pue(pue_in.ambient_temp_c, TRUE)
        IN  /\ ~geo.raised
            /\ geo.pue <= pue_out.pue
            /\ \A t \in AmbientHalves : compute_pue(t, TRUE).pue = geo.pue

(***************************************************************************)
(* C10: for every accelerator profile, ambient temperature and junction    *)
(* temperature the instantaneous power lies between P_tdp * (1 - alpha)    *)
(* and P_tdp; the returned energy is <= P_tdp * hours / 1000 and the       *)
(* reported throttle percentage is between 0 and 100 * alpha.              *)
(***************************************************************************)
PowerWithinBounds(gpu) ==
    \A T_j \in JunctionTemps :
        /\ power_at(gpu, T_j) <= TdpOf(gpu) * 1000
        /\ power_at(gpu, T_j) >= TdpOf(gpu) * (1000 - ThermalParams(gpu).alpha)

C10_ThrottleNeverAmplifies ==
    pc = "thr_done" =>
        /\ PowerWithinBounds(thr_in.gpu)
        /\ thr_out.energy_kwh <= TdpOf(thr_in.gpu) * thr_in.hours * 10
        /\ ~thr_out.pct_is_nan
        /\ thr_out.throttle_pct >= 0
        /\ thr_out.throttle_pct <= 10 * ThermalParams(thr_in.gpu).alpha

\* the requests of the log sent by one lookup to one endpoint
RequestsTo(lookup, url) ==
    {i \in 1..Len(requests) : requests[i].lookup = lookup /\ requests[i].url = url}

\* a request of the log failed: it timed out or raised, was answered with
\* another status than 200, or with a body that cannot be used
FailedRequest(i) ==
    /\ requests[i].resp.kind # "pending"
    /\ ~(/\ requests[i].resp.kind = "reply"
         /\ requests[i].resp.status = 200
         /\ requests[i].resp.parsable)

\* get_watttime_intensity has returned
IntensityLookupDone == pc \notin {"ev_880", "wi_login", "wi_signal"}

\* a non-negative fraction in lowest terms
RECURSIVE Gcd(_, _)
Gcd(a, b) == IF b = 0 THEN a ELSE Gcd(b, a % b)
Lowest(r) == LET g == Gcd(r.n, r.d) IN Rat(r.n \div g, r.d \div g)

\* two calls agree on emissions_kg, emissions_sigma, monthly_budget_kg and
\* monthly_used_kg
SameCore(a, b) ==
    /\ a.emissions_kg = b.emissions_kg
    /\ a.emissions_sigma = b.emissions_sigma
    /\ a.monthly_budget_kg = b.monthly_budget_kg
    /\ a.monthly_used_kg = b.monthly_used_kg

\* the calls that differ from a call in the forecast and the
\* alternative-infrastructure inputs only
OptionVariants(a) ==
    {[a EXCEPT !.optimal_window_hours      = o.optimal_window_hours,
               !.optimal_window_confidence = o.optimal_window_confidence,
               !.carbon_savings_pct        = o.carbon_savings_pct,
               !.crusoe_available          = o.crusoe_available,
               !.crusoe_emissions_kg       = o.crusoe_emissions_kg] :
        o \in [optimal_window_hours      : {0, MaxWait},
               optimal_window_confidence : Confidences,
               carbon_savings_pct        : SavingsPcts,
               crusoe_available          : BOOLEAN,
               crusoe_emissions_kg       : 0..MaxCrusoe]}

\* the status, overage_kg and overage_fraction of a decision
Verdict(g) == <<g.status, g.overage_kg, g.overage_fraction>>

(***************************************************************************)
(* C11: with fewer than 48 history samples forecast_optimal_window returns *)
(* wait = 0, confidence = 0, savings = 0 and the 'insufficient_history'    *)
(* indicator without fitting a model; and when estimate_emissions falls    *)
(* back to the harmonic forecaster with such a history the payload still   *)
(* carries that indicator next to source = 'fourier_fallback' and offers   *)
(* no 'wait' option.                                                       *)
(***************************************************************************)
C11_InsufficientHistorySurfaced ==
    est_in.intensity_history.len < 48 =>
        /\ LET f == forecast_optimal_window(est_in.intensity_history,
                                            100 * est_in.carbon_intensity,
                                            DefaultDailyHarmonics,
                                            DefaultWeeklyHarmonics)
           IN  /\ ~f.raised /\ ~f.fitted
               /\ f.opt_wait = 0 /\ f.opt_conf = 0 /\ f.savings_pct = 0
               /\ f.error = "insufficient_history"
        /\ (pc = "est_done" /\ live.watttime_forecast.len < 24) =>
              /\ est.forecast_source = "fourier_fallback"
              /\ est.forecast_error = "insufficient_history"
              /\ est.optimal_window_hours = 0
              /\ est.optimal_window_confidence = 0
              /\ est.carbon_savings_pct = 0
              /\ "wait" \notin OptionIds(est.gate)

C11_Witness ==
    /\ pc = "est_done"
    /\ est_in.intensity_history.len = 47
    /\ live.watttime_forecast.len > 0
    /\ live.watttime_forecast.len < 24
    /\ est.forecast_source = "fourier_fallback"
    /\ est.forecast_error = "insufficient_history"

C13_LiveIntensityOrStaticFallback ==
    IntensityLookupDone =>
        LET d    == live.watttime_data
            good == /\ fn_in.REQUESTS_AVAILABLE /\ fn_in.user /\ fn_in.pwd
                    /\ fn_in.region \in DOMAIN WATTTIME_BA
                    /\ \E i \in RequestsTo("intensity", "login") :
                          requests[i].resp.kind = "reply" /\ ~FailedRequest(i)
                    /\ \E i \in RequestsTo("intensity", "signal-index") :
                          requests[i].resp.kind = "reply" /\ ~FailedRequest(i)
        IN  IF good
            THEN d.source = "watttime"
            ELSE /\ d.source = "fallback"
                 /\ d.intensity_g_kwh = 100 * BaselineOf(fn_in.region)
                                          + 40 * RangeOf(fn_in.region)
                 /\ fn_in.region = "unknown" => d.intensity_g_kwh = 30000

\* the login succeeded, the signal-index request failed, the fallback is used
C13_Witness ==
    /\ IntensityLookupDone
    /\ live.watttime_data.source = "fallback"
    /\ \E i \in RequestsTo("intensity", "signal-index") : FailedRequest(i)

(***************************************************************************)
(* C14: one evaluation of estimate_emissions sends at most one login and   *)
(* one data request for the live intensity and at most one login and one   *)
(* data request for the live forecast, none of them again after a failure, *)
(* and after any failed request the evaluation goes on with fallback data  *)
(* and eventually returns.                                                 *)
(***************************************************************************)
C14_AtMostOneRequestEach ==
    /\ Cardinality(RequestsTo("intensity", "login")) <= 1
    /\ Cardinality(RequestsTo("intensity", "signal-index")) <= 1
    /\ Cardinality(RequestsTo("forecast", "login")) <= 1
    /\ Cardinality(RequestsTo("forecast", "forecast")) <= 1
    /\ Len(requests) <= 4

C14_FailureLeadsToReturn ==
    (\E i \in 1..Len(requests) : FailedRequest(i))
        ~> (pc = "ev_returned" /\ fn_out.returned)

(***************************************************************************)
(* C15: compute_carbon_diff reports the baseline marker (direction         *)
(* 'baseline', delta_kg = 0, delta_pct = 0) whenever the previous estimate *)
(* is absent, zero or negative, and a delta with a direction only for a    *)
(* strictly positive previous estimate.                                    *)
(***************************************************************************)
C15_BaselineUnlessPositivePrevious ==
    pc = "diff_done" =>
        IF fn_in.previous_kg = <<>> \/ fn_in.previous_kg[1] <= 0
        THEN /\ fn_out.direction = "baseline"
             /\ fn_out.delta_kg = 0
             /\ fn_out.delta_pct = 0
        ELSE /\ fn_out.direction \in {"increase", "decrease"}
             /\ fn_out.delta_kg = fn_in.current_kg - fn_in.previous_kg[1]

(***************************************************************************)
(* C16: the status, overage_kg and overage_fraction that                   *)
(* compute_gate_decision returns depend on emissions_kg, emissions_sigma,  *)
(* monthly_budget_kg and monthly_used_kg only: a call returns the same     *)
(* three values as any call with the same four inputs, whatever the        *)
(* forecast and alternative-infrastructure inputs of either are, and as    *)
(* an earlier call of the same process with the same four inputs.          *)
(***************************************************************************)
C16_VerdictDependsOnCoreInputsOnly ==
    pc = "gate_done" =>
        /\ \A b \in OptionVariants(gate_in) :
              SameCore(b, gate_in) /\ Verdict(GateDecision(b)) = Verdict(gate)
        /\ (fn_in.calls > 0 /\ SameCore(fn_in.in, gate_in)) =>
              Verdict(fn_out.out) = Verdict(gate)

\* a second call that differs from the first in the forecast and
\* alternative-infrastructure inputs only, after which other options are
\* offered for the same blocking verdict
C16_Witness ==
    /\ pc = "gate_done"
    /\ fn_in.calls = 1
    /\ SameCore(fn_in.in, gate_in)
    /\ fn_in.in.crusoe_available # gate_in.crusoe_available
    /\ fn_in.in.carbon_savings_pct # gate_in.carbon_savings_pct
    /\ gate.status = "hard_block"
    /\ fn_out.out.resolution_options # gate.resolution_options

(***************************************************************************)
(* C17: an accelerator identifier that is in no table causes no failure:   *)
(* compute_throttle_adjustment answers exactly as it does for an A100      *)
(* (the A100 thermal parameters and a nameplate power of 400 W, and no     *)
(* exception but the one a job of zero hours gets for every accelerator)   *)
(* and compute_embodied_carbon with the embodied footprint of an A100; a   *)
(* region that is in no table is converted with the baseline 200 and the   *)
(* range 250, in _percentile_to_g_kwh and in the static fallback alike.    *)
(***************************************************************************)
C17_UnknownIdentifiersUseDefaults ==
    /\ (pc # "id_throttle" /\ fn_in.fn = "identifiers"
          /\ fn_in.gpu \notin DOMAIN GPU_TDP_W) =>
          /\ fn_out.throttle \in compute_throttle_adjustment(
                                     "A100", fn_in.hours, fn_in.ambient_temp_c)
          /\ fn_out.throttle.raised => fn_in.hours = 0
          /\ ~fn_out.throttle.raised =>
                fn_out.throttle.naive_kwh = 400 * fn_in.hours * 10
    /\ (pc \in {"id_region", "id_done"} /\ fn_in.gpu \notin DOMAIN GPU_EMBODIED_KG) =>
          fn_out.embodied = compute_embodied_carbon("A100", fn_in.hours)
    /\ (pc = "id_done" /\ fn_in.region \notin DOMAIN REGION_BASELINE) =>
          /\ fn_out.g_kwh = 200 * 10000 + 100 * fn_in.pct * 250
          /\ fn_out.fallback.source = "fallback"
          /\ fn_out.fallback.intensity_g_kwh = 100 * 200 + 40 * 250
          /\ fn_out.fallback.intensity_sigma = 15 * 250

\* an accelerator and a region that are in no table, on a job hot and long
\* enough to throttle
C17_Witness ==
    /\ pc = "id_done"
    /\ fn_in.gpu = "TPU-v4"
    /\ fn_in.region = "mars-north-1"
    /\ fn_in.hours > 0
    /\ fn_out.throttle.throttle_pct > 0
    /\ fn_out.embodied.embodied_kg > 0
    /\ fn_out.g_kwh > 200 * 10000

(***************************************************************************)
(* C18: for a history of N >= 48 samples the design matrix has             *)
(* 1 + 2 * n_daily columns, with 2 * n_weekly weekly columns more exactly  *)
(* when N >= 336 and 2 * n_weekly biweekly columns more exactly when       *)
(* N >= 672; a shorter history drops those terms and the fit does not      *)
(* fail on it but reports r2_weekly = 0 (N < 336) and r2_biweekly = 0      *)
(* (N < 672); the projection matrix has exactly as many columns as there   *)
(* are fitted coefficients, so none is truncated and none padded.          *)
(***************************************************************************)
C18_ColumnsFollowHistoryLength ==
    (pc \in {"fc_done", "fc_raised"} /\ fn_in.intensity_history.len >= 48) =>
        LET N  == fn_in.intensity_history.len
            nd == fn_in.n_daily_harmonics
            nw == fn_in.n_weekly_harmonics
        IN  /\ fn_out.fitted
            /\ fn_out.raised_at # 533
            /\ fn_out.weekly_columns = (IF N >= 336 THEN 2 * nw ELSE 0)
            /\ fn_out.biweekly_columns = (IF N >= 672 THEN 2 * nw ELSE 0)
            /\ fn_out.n_coefficients =
                   1 + 2 * nd + fn_out.weekly_columns + fn_out.biweekly_columns
            /\ N < 336 => fn_out.r2_weekly = 0
            /\ N < 672 => fn_out.r2_biweekly = 0
            /\ fn_out.n_cols = fn_out.n_coefficients
            /\ ~fn_out.truncated /\ ~fn_out.padded

\* a week of history but not yet two: weekly terms fitted, biweekly dropped
C18_Witness ==
    /\ pc = "fc_done"
    /\ fn_in.intensity_history.len = 336
    /\ fn_in.n_weekly_harmonics = 2
    /\ fn_out.weekly_columns = 4
    /\ fn_out.biweekly_columns = 0
    /\ fn_out.r2_weekly > 0
    /\ fn_out.r2_biweekly = 0

(***************************************************************************)
(* C19: the confidence forecast_optimal_window returns is always in        *)
(* [0, 1].  The base confidence is 1 - residual_std / forecast_range       *)
(* clamped to [0, 1], or 0.5 when the forecast range is 0; the final       *)
(* confidence is base * (1 - 0.40 * min(1, volatility / 100)), never above *)
(* the base confidence and never below 60 % of it.  (The value handed back *)
(* is the final confidence rounded to three decimals.)                     *)
(***************************************************************************)
C19_ConfidenceBounded ==
    pc = "fc_done" =>
        LET h    == fn_in.intensity_history
            base == IF h.fcast_range = 0 THEN Rat(1, 2)
                    ELSE IF h.residual_std >= h.fcast_range THEN Rat(0, 1)
                    ELSE Rat(h.fcast_range - h.residual_std, h.fcast_range)
            volc == IF h.volatility >= 100 THEN 100 ELSE h.volatility
        IN  /\ fn_out.opt_conf \in 0..1000
            /\ RatLE(Rat(0, 1), fn_out.confidence)
            /\ RatLE(fn_out.confidence, Rat(1, 1))
            /\ fn_out.opt_conf =
                   RoundScaled(fn_out.confidence.n, fn_out.confidence.d, 1000)
            /\ fn_out.fitted =>
                  /\ RatEQ(fn_out.base_conf, base)
                  /\ Lowest(fn_out.confidence)
                        = Lowest(Rat(base.n * (250 - volc), base.d * 250))
                  /\ RatLE(fn_out.confidence, fn_out.base_conf)
                  /\ RatLE(Rat(3 * fn_out.base_conf.n, 5 * fn_out.base_conf.d),
                           fn_out.confidence)

\* a history more volatile than the ceiling: the discount stops at 40 %
C19_Witness ==
    /\ pc = "fc_done"
    /\ fn_out.fitted
    /\ fn_in.intensity_history.volatility > 100
    /\ RatLT(Rat(0, 1), fn_out.base_conf)
    /\ RatLT(fn_out.base_conf, Rat(1, 1))
    /\ RatEQ(fn_out.confidence,
             Rat(3 * fn_out.base_conf.n, 5 * fn_out.base_conf.d))

(***************************************************************************)
(* C20: every uncertainty value of an evaluation is non-negative, for      *)
(* every input: the PUE sigma, the embodied sigma, the intensity_sigma     *)
(* (that of the live source or 10 % of the carbon_intensity passed in)     *)
(* and the combined emissions_sigma of the result of estimate_emissions.   *)
(***************************************************************************)
C20_SigmasNonNegative ==
    pc = "est_done" =>
        /\ est.pue_sigma >= 0
        /\ compute_embodied_carbon(est_in.gpu, est_in.hours).embodied_sigma >= 0
        /\ est.intensity_sigma >= 0
        /\ est.emissions_sigma >= 0

(***************************************************************************)
(* C21: for the reference scenario (an A100 of 400 W, a job of 4 hours,    *)
(* 18 C ambient, 420 g/kWh, not geothermal) estimate_emissions yields a    *)
(* PUE within [1.1, 1.3], combined emissions of less than 10 kg and an     *)
(* alternative-infrastructure estimate strictly below the combined         *)
(* emissions.                                                              *)
(***************************************************************************)
C21_ReferenceScenario ==
    (/\ pc = "est_done"
     /\ est_in.gpu = "A100" /\ TdpOf(est_in.gpu) = 400
     /\ est_in.hours = 4
     /\ est_in.ambient_temp_c = 2 * 18
     /\ est_in.carbon_intensity = 420
     /\ ~est_in.is_crusoe) =>
        /\ est.pue_used >= 11000 /\ est.pue_used <= 13000
        /\ est.emissions_kg < 10 * 10000
        /\ est.crusoe_emissions_kg < est.emissions_kg

(***************************************************************************)
(* C22: the grid intensity is taken in the documented priority order, so   *)
(* when the payload's intensity_source is 'watttime' the reported          *)
(* carbon_intensity is the live intensity and the operational emissions    *)
(* are those computed from the live intensity, not from the passed-in one. *)
(***************************************************************************)
C22_LiveIntensityUsedWhenTaggedLive ==
    (pc = "est_done" /\ est.intensity_source = "watttime") =>
        /\ 100 * est.carbon_intensity = live.watttime_data.intensity_g_kwh
        /\ est.operational_kg \in
              {ph.operational_kg :
                  ph \in {q \in EstPhysics([est_in EXCEPT !.carbon_intensity =
                                  live.watttime_data.intensity_g_kwh \div 100]) :
                             ~q.raised}}

(***************************************************************************)
(* C23: compute_gate_decision returns 'hard_block' only when the overage   *)
(* exceeds 50% of the monthly budget (THRESHOLD_HARD) and 'soft_block'     *)
(* only when the overage is between 10% and 20% of the budget, as the      *)
(* documentation of the four tiers states.                                 *)
(***************************************************************************)
C23_BlockTiersAsDocumented ==
    pc = "gate_done" =>
        /\ gate.status = "hard_block" =>
              100 * OverageKg(gate_in) > THRESHOLD_HARD * gate_in.monthly_budget_kg
        /\ gate.status = "soft_block" =>
              /\ 100 * OverageKg(gate_in) > THRESHOLD_WARN * gate_in.monthly_budget_kg
              /\ 100 * OverageKg(gate_in) <= THRESHOLD_SOFT * gate_in.monthly_budget_kg

(***************************************************************************)
(* C24: whenever compute_gate_decision returns 'pass', the reported        *)
(* overage_kg is 0 and the estimate does not exceed the remaining budget,  *)
(* for every input, a budget of 0 and a usage above the budget included.   *)
(***************************************************************************)
C24_PassMeansWithinBudget ==
    (pc = "gate_done" /\ gate.status = "pass") =>
        /\ gate.overage_kg = 0
        /\ gate_in.emissions_kg <= gate_in.monthly_budget_kg - gate_in.monthly_used_kg

(***************************************************************************)
(* The action script gate_check.py.  The script reads its environment and  *)
(* carbon-gate.yml, asks GitHub and the hosted service over HTTP, and      *)
(* ends with an exit code.  In the specifications below fn_in holds what   *)
(* the run is given (environment, configuration and what each service      *)
(* answers), fn_out the values the run has computed, and requests the      *)
(* calls and posts of the run in their order.  The variables of the        *)
(* physics pipeline stay idle.                                             *)
(***************************************************************************)
PipelineIdle ==
    /\ gate_in = NoGateIn
    /\ gate = NoGate
    /\ pue_in = NoPueIn
    /\ pue_out = NoPue
    /\ thr_in = NoThrottleIn
    /\ thr_out = NoThrottle
    /\ est_in = NoEstIn
    /\ est = NoEst
    /\ live = NoLive

\* a request that raised requests.exceptions.RequestException
Failed == [failed |-> TRUE]
\* a response that carried the JSON value data
Ok(data) == [failed |-> FALSE, data |-> data]

\* the value None and a returned value
None == [is_none |-> TRUE]
Some(v) == [is_none |-> FALSE, value |-> v]

Users == {"alice", "bob"}

\* lines 1015-1017: permission_levels, .get(required_permission, 4) and
\* .get(user_permission, 0)
permission_levels ==
    ("admin" :> 4) @@ ("maintain" :> 3) @@ ("write" :> 2) @@ ("read" :> 1) @@
    ("none" :> 0)
RequiredLevel(required_permission) ==
    IF required_permission \in DOMAIN permission_levels
    THEN permission_levels[required_permission] ELSE 4
UserLevel(user_permission) ==
    IF user_permission \in DOMAIN permission_levels
    THEN permission_levels[user_permission] ELSE 0

\* check_user_permission, lines 926-950: 'none' without a token, a repository
\* or a user name and when the request fails, else the permission of the
\* response
check_user_permission(gh, username) ==
    IF ~gh.env_ok \/ username = "" THEN "none"
    ELSE IF gh.permission[username].failed THEN "none"
    ELSE gh.permission[username].data

\* check_user_teams, lines 953-999: the user is an active member of a team
\* of the organisation whose name or slug is in allowed_teams
check_user_teams(gh, username, allowed_teams) ==
    IF allowed_teams = {} THEN FALSE
    ELSE IF ~gh.env_ok \/ username = "" THEN FALSE
    ELSE IF gh.teams.failed THEN FALSE
    ELSE \E i \in 1..Len(gh.teams.data) :
            /\ gh.teams.data[i].name \in allowed_teams
                 \/ gh.teams.data[i].slug \in allowed_teams
            /\ gh.membership[username] = "active"

\* has_permission_to_override, lines 1002-1031
has_permission_to_overrideMutant(gh, config, username) ==
    UserLevel(check_user_permission(gh, username)) >= 1
has_permission_to_override(gh, config, username) ==
    \/ UserLevel(check_user_permission(gh, username))
          >= RequiredLevel(config.override_permission)
    \/ /\ config.allowed_teams # {}
       /\ check_user_teams(gh, username, config.allowed_teams)

\* A comment body: its text in lower case, whether it is written in capitals
\* and, for a command, the number of characters that follow the command once
\* blanks, colons and dashes are stripped.  str.lower() drops the capitals;
\* a lower-case literal is contained in a body that spells it in lower case.
Body(text, upper, tail) == [text |-> text, upper |-> upper, tail |-> tail]
Lower(body) == [body EXCEPT !.upper = FALSE]
Contains(body, literal) == body.text = literal /\ ~body.upper

\* line 1144: the keywords looked for in the lower-cased body
JustificationKeywords == {"override", "exception", "urgent", "critical"}
HasKeyword(body) ==
    \E keyword \in JustificationKeywords : Contains(Lower(body), keyword)

\* lines 1098-1107: the actor of the most recent 'labeled' event of the
\* label, scanning the events from the last ("" when no event matches or
\* the event carries no login)
RECURSIVE LabelActor(_, _)
LabelActor(events, i) ==
    IF i = 0 THEN ""
    ELSE IF events[i].event = "labeled" /\ events[i].label = "carbon-override"
         THEN events[i].actor
         ELSE LabelActor(events, i - 1)

\* lines 1138-1147: the first comment of the user with a keyword
RECURSIVE FindJustification(_, _, _)
FindJustification(comments, user, i) ==
    IF i > Len(comments) THEN None
    ELSE IF comments[i].user = user /\ HasKeyword(comments[i].body)
         THEN Some(comments[i].body)
         ELSE FindJustification(comments, user, i + 1)

Denied(user) == Some([allowed |-> FALSE, user |-> user, justification |-> None])
Granted(user, justification) ==
    Some([allowed |-> TRUE, user |-> user, justification |-> justification])

\* check_override_label, lines 1059-1166
check_override_label(gh, config) ==
    LET user == LabelActor(gh.events.data, Len(gh.events.data))
        justification == FindJustification(gh.comments.data, user, 1)
    IN  IF ~gh.env_ok THEN None
        ELSE IF gh.issue.failed THEN None
        ELSE IF "carbon-override" \notin gh.issue.data THEN None
        ELSE IF gh.events.failed THEN None
        ELSE IF user = "" THEN Denied("unknown")
        ELSE IF ~has_permission_to_override(gh, config, user) THEN Denied(user)
        ELSE IF ~config.require_justification
             THEN Granted(user, Some("Not provided"))
        ELSE IF gh.comments.failed THEN None
        ELSE IF justification.is_none THEN Denied(user)
        ELSE Granted(user, justification)

\* what GitHub answers to a run of check_override_label
LabelEvents ==
    {[event |-> "labeled", label |-> "carbon-override", actor |-> "alice"],
     [event |-> "labeled", label |-> "carbon-override", actor |-> "bob"],
     [event |-> "labeled", label |-> "carbon-override", actor |-> ""],
     [event |-> "labeled", label |-> "bug", actor |-> "alice"]}
LabelComments ==
    {[user |-> "alice", body |-> Body("urgent", TRUE, 0)],
     [user |-> "alice", body |-> Body("lgtm", FALSE, 0)],
     [user |-> "bob", body |-> Body("override", FALSE, 0)]}
MaxEvents == 2
MaxComments == 2
SeqsUpTo(S, n) == UNION {[1..k -> S] : k \in 0..n}
CoreTeam == <<[name |-> "Core Team", slug |-> "core"]>>

SecurityConfigs ==
    [override_permission   : {"write", "admin", "owner"},
     allowed_teams         : {{}, {"core"}},
     require_justification : BOOLEAN]

LabelRuns ==
    [env_ok     : BOOLEAN,
     issue      : {Failed, Ok({}), Ok({"carbon-override"})},
     events     : {Failed} \cup {Ok(e) : e \in SeqsUpTo(LabelEvents, MaxEvents)},
     comments   : {Failed} \cup {Ok(c) : c \in SeqsUpTo(LabelComments, MaxComments)},
     permission : {[alice |-> a, bob |-> Ok("read")] :
                     a \in {Failed, Ok("admin"), Ok("write"), Ok("triage")}},
     teams      : {Ok(CoreTeam)},
     membership : {[alice |-> m, bob |-> "absent"] : m \in {"active", "pending"}}]

InitOverrideLabel ==
    /\ pc = "label_call"
    /\ fn_in \in [fn : {"check_override_label"}, gh : LabelRuns,
                  config : SecurityConfigs]
    /\ fn_out = NoFn
    /\ requests = <<>>
    /\ PipelineIdle

call_check_override_label ==
    /\ pc = "label_call"
    /\ fn_out' = check_override_label(fn_in.gh, fn_in.config)
    /\ pc' = "label_done"
    /\ UNCHANGED <<fn_in, gate_in, gate, pue_in, pue_out, thr_in, thr_out,
                   est_in, est, live, requests>>

NextOverrideLabel == call_check_override_label

SpecOverrideLabel == InitOverrideLabel /\ [][NextOverrideLabel]_vars

\* the conditions of an override, read off the pull request: the label, its
\* most recent 'labeled' event, the actor's permission in the order
\* none < read < write < maintain < admin or team membership, a comment
LabelSeen ==
    /\ fn_in.gh.env_ok
    /\ ~fn_in.gh.issue.failed
    /\ "carbon-override" \in fn_in.gh.issue.data
LabeledEvents(events) ==
    {i \in 1..Len(events) :
        events[i].event = "labeled" /\ events[i].label = "carbon-override"}
MostRecent(S) == CHOOSE i \in S : \A j \in S : j <= i
PermissionOrder == <<"none", "read", "write", "maintain", "admin">>
RankIn(order, p, default) ==
    IF \E k \in 1..Len(order) : order[k] = p
    THEN CHOOSE k \in 1..Len(order) : order[k] = p
    ELSE CHOOSE k \in 1..Len(order) : order[k] = default
PermissionOf(gh, actor) ==
    IF gh.permission[actor].failed THEN "none" ELSE gh.permission[actor].data
ActiveInAllowedTeam(gh, config, actor) ==
    /\ ~gh.teams.failed
    /\ gh.membership[actor] = "active"
    /\ \E i \in 1..Len(gh.teams.data) :
          {gh.teams.data[i].name, gh.teams.data[i].slug}
              \cap config.allowed_teams # {}
OverrideConditions(gh, config) ==
    /\ ~gh.events.failed
    /\ LabeledEvents(gh.events.data) # {}
    /\ LET actor == gh.events.data[MostRecent(LabeledEvents(gh.events.data))].actor
       IN  /\ actor # ""
           /\ \/ RankIn(PermissionOrder, PermissionOf(gh, actor), "none")
                    >= RankIn(PermissionOrder, config.override_permission, "admin")
              \/ ActiveInAllowedTeam(gh, config, actor)
           /\ config.require_justification =>
                 /\ ~gh.comments.failed
                 /\ \E i \in 1..Len(gh.comments.data) :
                       /\ gh.comments.data[i].user = actor
                       /\ gh.comments.data[i].body.text \in JustificationKeywords

(***************************************************************************)
(* C28 as stated: check_override_label returns allowed = True only if the  *)
(* label is present, its most recent 'labeled' event names an actor, the   *)
(* actor has the configured permission level or is an active member of an  *)
(* allowed team and, when a justification is required, has written a       *)
(* comment with a keyword; with the label present every other case         *)
(* returns allowed = False.                                                *)
(***************************************************************************)
C28_AllowedOnlyIfAllChecks_ElseDenied ==
    (pc = "label_done" /\ LabelSeen) =>
        /\ ~fn_out.is_none
        /\ fn_out.value.allowed => OverrideConditions(fn_in.gh, fn_in.config)

(***************************************************************************)
(* C28 as amended: allowed = True only under the same conditions; with the *)
(* label present every other case returns allowed = False, or None when    *)
(* the events request or the comments request fails.                       *)
(***************************************************************************)
C28_AllowedOnlyIfAllChecks_ElseDeniedOrNone ==
    (pc = "label_done" /\ LabelSeen) =>
        /\ fn_out.is_none =>
              \/ fn_in.gh.events.failed
              \/ fn_in.gh.comments.failed /\ fn_in.config.require_justification
        /\ (~fn_out.is_none /\ fn_out.value.allowed) =>
              OverrideConditions(fn_in.gh, fn_in.config)

\* an override granted to a team member below the configured permission,
\* on a justification written in capitals
C28_Witness ==
    /\ pc = "label_done"
    /\ LabelSeen
    /\ ~fn_out.is_none
    /\ fn_out.value.allowed
    /\ fn_in.config.require_justification
    /\ fn_in.config.override_permission = "owner"
    /\ fn_out.value.justification = Some(Body("urgent", TRUE, 0))

(***************************************************************************)
(* check_crusoe_reroute_command                                            *)
(***************************************************************************)
\* line 1052: the least length of a justification
MinJustificationLen == 10

\* extract_justification, lines 1034-1056: None unless the command is in the
\* text as it is written; else the text after the command, stripped of
\* blanks and of leading colons and dashes, when it has 10 characters
extract_justification(body, command) ==
    IF ~Contains(body, command) THEN None
    ELSE IF body.tail >= MinJustificationLen THEN Some(body.tail)
    ELSE None

\* lines 1196-1231: the comments from the most recent one; a comment whose
\* lower-cased body holds the command and whose author is known decides
RECURSIVE ScanRerouteComments(_, _, _, _)
ScanRerouteComments(gh, config, comments, i) ==
    IF i = 0 THEN None
    ELSE LET body == comments[i].body
             user == comments[i].user
             justification == extract_justification(body, "/crusoe-run")
         IN  IF ~Contains(Lower(body), "/crusoe-run")
             THEN ScanRerouteComments(gh, config, comments, i - 1)
             ELSE IF user = ""
             THEN ScanRerouteComments(gh, config, comments, i - 1)
             ELSE IF ~has_permission_to_override(gh, config, user)
             THEN Denied(user)
             ELSE IF config.require_justification /\ justification.is_none
             THEN Denied(user)
             ELSE IF justification.is_none
             THEN Granted(user, Some("Not provided"))
             ELSE Granted(user, justification)

\* check_crusoe_reroute_command, lines 1169-1237
check_crusoe_reroute_command(gh, config) ==
    IF ~gh.env_ok THEN None
    ELSE IF gh.comments.failed THEN None
    ELSE ScanRerouteComments(gh, config, gh.comments.data,
                             Len(gh.comments.data))

RerouteComments ==
    {[user |-> "alice", body |-> Body("/crusoe-run", FALSE, MinJustificationLen)],
     [user |-> "alice", body |-> Body("/crusoe-run", TRUE, MinJustificationLen)],
     [user |-> "alice", body |-> Body("/crusoe-run", FALSE, MinJustificationLen - 1)],
     [user |-> "alice", body |-> Body("lgtm", FALSE, 0)],
     [user |-> "bob", body |-> Body("/crusoe-run", FALSE, MinJustificationLen)],
     [user |-> "", body |-> Body("/crusoe-run", FALSE, MinJustificationLen)]}

RerouteRuns ==
    [env_ok     : BOOLEAN,
     comments   : {Failed} \cup {Ok(c) : c \in SeqsUpTo(RerouteComments, MaxComments)},
     permission : {[alice |-> a, bob |-> Ok("read")] :
                     a \in {Failed, Ok("admin"), Ok("write"), Ok("triage")}},
     teams      : {Ok(CoreTeam)},
     membership : {[alice |-> m, bob |-> "absent"] : m \in {"active", "pending"}}]

InitReroute ==
    /\ pc = "reroute_call"
    /\ fn_in \in [fn : {"check_crusoe_reroute_command"}, gh : RerouteRuns,
                  config : SecurityConfigs]
    /\ fn_out = NoFn
    /\ requests = <<>>
    /\ PipelineIdle

call_check_crusoe_reroute_command ==
    /\ pc = "reroute_call"
    /\ fn_out' = check_crusoe_reroute_command(fn_in.gh, fn_in.config)
    /\ pc' = "reroute_done"
    /\ UNCHANGED <<fn_in, gate_in, gate, pue_in, pue_out, thr_in, thr_out,
                   est_in, est, live, requests>>

NextReroute == call_check_crusoe_reroute_command

SpecReroute == InitReroute /\ [][NextReroute]_vars

\* the comments that hold the command in any letter case and have a known
\* author, by their index in the response
CommandComments(comments) ==
    {i \in 1..Len(comments) :
        comments[i].body.text = "/crusoe-run" /\ comments[i].user # ""}

(***************************************************************************)
(* C29: check_crusoe_reroute_command decides from the most recent comment  *)
(* that holds '/crusoe-run' in any letter case and has a known author, and *)
(* from it alone: allowed = True iff the author passes                     *)
(* has_permission_to_override and, when a justification is required, the   *)
(* comment has at least 10 characters of justification after the command;  *)
(* allowed = False otherwise; None when there is no such comment.          *)
(***************************************************************************)
C29_DecidedByMostRecentCommand ==
    (pc = "reroute_done" /\ fn_in.gh.env_ok /\ ~fn_in.gh.comments.failed) =>
        LET comments == fn_in.gh.comments.data
            S == CommandComments(comments)
            deciding == comments[MostRecent(S)]
        IN  IF S = {} THEN fn_out.is_none
            ELSE /\ ~fn_out.is_none
                 /\ fn_out.value.user = deciding.user
                 /\ fn_out.value.allowed <=>
                       /\ has_permission_to_override(fn_in.gh, fn_in.config,
                                                     deciding.user)
                       /\ fn_in.config.require_justification =>
                             deciding.body.tail >= 10

(***************************************************************************)
(* main.  Masses are in units of 1e-4 kg.  An optional value of a JSON     *)
(* object or of the environment is <<>> when absent and <<v>> when present.*)
(***************************************************************************)
\* the tables of the local calculator, lines 197-224 (the script's own
\* tables, which differ from those of the physics module)
LOCAL_GPU_TDP_W ==
    [H100 |-> 700, A100 |-> 400, V100 |-> 300, A10 |-> 150, A10G |-> 150,
     T4 |-> 70, L40 |-> 300]
LOCAL_GPU_EMBODIED_KG ==
    [H100 |-> 250, A100 |-> 150, V100 |-> 120, A10 |-> 80, A10G |-> 80,
     T4 |-> 50, L40 |-> 120]
GPU_LIFETIME_H == 21900
CRUSOE_INTENSITY_G_PER_KWH == 5
REGION_CARBON_INTENSITY ==
    ("us-east-1" :> 380) @@ ("us-east-2" :> 440) @@ ("us-west-1" :> 210) @@
    ("us-west-2" :> 280) @@ ("eu-west-1" :> 300) @@ ("eu-west-2" :> 230) @@
    ("eu-west-3" :> 55) @@ ("eu-central-1" :> 340) @@ ("eu-north-1" :> 25) @@
    ("ap-northeast-1" :> 480) @@ ("ap-south-1" :> 640)

\* the result of a calculation: what main reads of it
GateResult(emissions_kg, crusoe_emissions_kg, status) ==
    [raised |-> FALSE, emissions_kg |-> emissions_kg,
     crusoe_emissions_kg |-> crusoe_emissions_kg, status |-> status]
LocalRaised == [raised |-> TRUE]

\* lines 299-333, the simplified model: pue = 1.10 + 5 * 0.005 = 9/8,
\* emissions = round(op_kg + emb_kg, 2), where op_kg + emb_kg in units of
\* 0.01 kg is tdp * hours * intensity * 9 / 80000 + embodied * hours / 219
SimplifiedEmissions(gpu, hours, intensity) ==
    LET tdp_w == IF gpu \in DOMAIN LOCAL_GPU_TDP_W
                 THEN LOCAL_GPU_TDP_W[gpu] ELSE LOCAL_GPU_TDP_W["A100"]
        embodied_kg_val == IF gpu \in DOMAIN LOCAL_GPU_EMBODIED_KG
                           THEN LOCAL_GPU_EMBODIED_KG[gpu]
                           ELSE LOCAL_GPU_EMBODIED_KG["A100"]
    IN  100 * RoundScaled(tdp_w * hours * intensity * 9 * 219
                            + embodied_kg_val * hours * 80000,
                          80000 * 219, 1)

\* lines 243-270: the inputs the full pipeline is given
LocalHistoryLen == 168
LocalInput(gpu, hours, region) ==
    [gpu |-> gpu, hours |-> hours, region |-> region,
     ambient_temp_c |-> 2 * 20,
     carbon_intensity |-> BaselineOf(region) + (RangeOf(region) * 4) \div 10,
     intensity_history |-> History(LocalHistoryLen, 0, 45000, 60, 100, 80),
     monthly_budget_kg |-> 50 * 10000, monthly_used_kg |-> 0,
     previous_emissions_kg |-> <<>>, is_crusoe |-> FALSE,
     crusoe_available |-> TRUE]

\* calculate_emissions_local, lines 227-333: the outcomes of the call; both
\* branches report the status 'pass'
calculate_emissions_local(full_calc, gpu, hours, region) ==
    IF full_calc
    THEN {IF r.est.raised THEN LocalRaised
          ELSE GateResult(<<r.est.emissions_kg>>, <<r.est.crusoe_emissions_kg>>,
                          "pass") :
             r \in EstResults(LocalInput(gpu, hours, region),
                              EstPhysics(LocalInput(gpu, hours, region)))}
    ELSE {GateResult(
            <<SimplifiedEmissions(gpu, hours,
                IF region \in DOMAIN REGION_CARBON_INTENSITY
                THEN REGION_CARBON_INTENSITY[region] ELSE 380)>>,
            <<SimplifiedEmissions(gpu, hours, CRUSOE_INTENSITY_G_PER_KWH)>>,
            "pass")}

\* what a run of main has computed so far: the outcome of each bypass
\* check, the result of the calculation, the status it came with, the
\* exception that ended the run ("" for none) and the exit code (<<>> while
\* running)
NoRun ==
    [paid |-> FALSE, override_check |-> None, crusoe_check |-> None,
     result |-> None, returned_status |-> "", raised |-> "",
     exit_code |-> <<>>]
ExitMutant(run, code) == [run EXCEPT !.exit_code = <<1>>]
Exit(run, code) == [run EXCEPT !.exit_code = <<code>>]
\* an exception nothing catches ends the interpreter with exit code 1
Uncaught(run, exception) ==
    [run EXCEPT !.raised = exception, !.exit_code = <<1>>]

\* the pull request as the run sees it: the GitHub helpers return early
\* without GITHUB_TOKEN, GITHUB_REPOSITORY or PR_NUMBER
GitHubOf(in) ==
    [in.gh EXCEPT !.env_ok = in.env.GITHUB_TOKEN /\ in.env.PR_NUMBER]

\* lines 1757-1762: the apply-patch mode is a run of its own
main_begin ==
    /\ pc = "main"
    /\ pc' = IF fn_in.APPLY_PATCH_REQUESTED THEN "patch_mode" ELSE "sha"
    /\ UNCHANGED <<fn_in, fn_out, requests, gate_in, gate, pue_in, pue_out,
                   thr_in, thr_out, est_in, est, live>>

\* what /api/override/valid answers: no answer, an error status, or the
\* JSON object with its 'valid' member
ValidResponses == {Failed, Ok(<<>>), Ok(<<TRUE>>), Ok(<<FALSE>>)}

\* check_sha_paid_override, lines 1339-1382, and lines 1765-1770 of main
sha_paid_override ==
    /\ pc = "sha"
    /\ \E resp \in ValidResponses :
          LET asked == fn_in.OVERRIDE_SIGNING_SECRET
              paid  == asked /\ ~resp.failed /\ resp.data = <<TRUE>>
          IN  /\ asked \/ resp = Failed
              /\ requests' = requests \o <<"check_sha_paid_override">>
                                \o (IF asked THEN <<"GET /api/override/valid">>
                                    ELSE <<>>)
              /\ fn_out' = IF paid THEN Exit([fn_out EXCEPT !.paid = TRUE], 0)
                           ELSE fn_out
              /\ pc' = IF paid THEN "exited" ELSE "label"
    /\ UNCHANGED <<fn_in, gate_in, gate, pue_in, pue_out, thr_in, thr_out,
                   est_in, est, live>>

\* request_admin_override, lines 1622-1652: the request is made with an
\* organisation key and a PR number; its outcome changes only the output
AdminOverrideLogged(in) ==
    IF in.ORG_API_KEY /\ in.env.PR_NUMBER
    THEN <<"POST /api/override/admin">> ELSE <<>>

\* lines 1773-1796
override_label ==
    /\ pc = "label"
    /\ LET check == check_override_label(GitHubOf(fn_in), fn_in.config)
           granted == ~check.is_none /\ check.value.allowed
       IN  /\ requests' = requests \o <<"check_override_label">>
                             \o (IF granted THEN AdminOverrideLogged(fn_in)
                                 ELSE <<>>)
           /\ fn_out' = IF granted
                        THEN Exit([fn_out EXCEPT !.override_check = check], 0)
                        ELSE [fn_out EXCEPT !.override_check = check]
           /\ pc' = IF granted THEN "exited" ELSE "reroute"
    /\ UNCHANGED <<fn_in, gate_in, gate, pue_in, pue_out, thr_in, thr_out,
                   est_in, est, live>>

\* lines 1799-1812
crusoe_reroute ==
    /\ pc = "reroute"
    /\ LET check == check_crusoe_reroute_command(GitHubOf(fn_in), fn_in.config)
           granted == ~check.is_none /\ check.value.allowed
       IN  /\ requests' = requests \o <<"check_crusoe_reroute_command">>
           /\ fn_out' = IF granted
                        THEN Exit([fn_out EXCEPT !.crusoe_check = check], 0)
                        ELSE [fn_out EXCEPT !.crusoe_check = check]
           /\ pc' = IF granted THEN "exited" ELSE "gate_api"
    /\ UNCHANGED <<fn_in, gate_in, gate, pue_in, pue_out, thr_in, thr_out,
                   est_in, est, live>>

\* what /api/gate/check answers: no answer or an error status (401
\* included), or a JSON object
HostedResults ==
    {GateResult(e, c, st) :
        e \in {<<>>, <<5000>>, <<10000>>, <<20000>>},
        c \in {<<>>, <<1000>>},
        st \in {"pass", "block"}}
HostedResponses == {Failed} \cup {Ok(d) : d \in HostedResults}

\* call_gate_api, lines 1240-1298, and line 1815 of main
call_gate_api ==
    /\ pc = "gate_api"
    /\ IF ~fn_in.env.PR_NUMBER
       THEN /\ requests' = requests \o <<"call_gate_api">>
            /\ fn_out' = Exit(fn_out, 0)
            /\ pc' = "exited"
       ELSE \E resp \in HostedResponses,
               local \in calculate_emissions_local(
                            fn_in.FULL_CALC_AVAILABLE, fn_in.config.gpu,
                            fn_in.config.estimated_hours, fn_in.config.region) :
              LET asked  == fn_in.ORG_API_KEY
                  hosted == asked /\ ~resp.failed
              IN  /\ asked \/ resp = Failed
                  /\ requests' = requests \o <<"call_gate_api">>
                        \o (IF asked THEN <<"POST /api/gate/check">> ELSE <<>>)
                        \o (IF hosted THEN <<>>
                            ELSE <<"calculate_emissions_local">>)
                  /\ fn_out' = IF hosted
                               THEN [fn_out EXCEPT !.result = Some(resp.data)]
                               ELSE IF local.raised
                               THEN Uncaught(fn_out, "ZeroDivisionError")
                               ELSE [fn_out EXCEPT !.result = Some(local)]
                  /\ pc' = IF ~hosted /\ local.raised THEN "exited"
                           ELSE "thresholds"
    /\ UNCHANGED <<fn_in, gate_in, gate, pue_in, pue_out, thr_in, thr_out,
                   est_in, est, live>>

\* lines 1819-1831: result.get("emissions_kg", 0) against the thresholds of
\* the configuration
ThresholdStatusMutant(emissions_kg, threshold_kg, warn_kg) ==
    IF emissions_kg >= warn_kg THEN "warn"
    ELSE "pass"
ThresholdStatus(emissions_kg, threshold_kg, warn_kg) ==
    IF emissions_kg >= threshold_kg THEN "block"
    ELSE IF emissions_kg >= warn_kg THEN "warn"
    ELSE "pass"
GetOr(optional, default) == IF optional = <<>> THEN default ELSE optional[1]

apply_thresholds ==
    /\ pc = "thresholds"
    /\ fn_out' = [fn_out EXCEPT
                    !.returned_status = fn_out.result.value.status,
                    !.result.value.status =
                        ThresholdStatus(GetOr(fn_out.result.value.emissions_kg, 0),
                                        fn_in.config.threshold_kg_co2,
                                        fn_in.config.warn_kg_co2)]
    /\ pc' = "report"
    /\ UNCHANGED <<fn_in, requests, gate_in, gate, pue_in, pue_out, thr_in,
                   thr_out, est_in, est, live>>

\* format_pr_comment, lines 1414-1544: the exception it raises ("" for none):
\* result["emissions_kg"] and result["crusoe_emissions_kg"] are read without
\* a default (lines 1417-1418) and cost_diff_pct divides by current_cost =
\* hourly rate * estimated_hours (line 1450)
format_pr_comment(config, result) ==
    IF result.emissions_kg = <<>> \/ result.crusoe_emissions_kg = <<>>
    THEN "KeyError"
    ELSE IF config.estimated_hours = 0 THEN "ZeroDivisionError"
    ELSE ""

\* lines 1833-1866: the suggestions (their failures are caught and replaced
\* by the static text), format_pr_comment and post_pr_comment, lines
\* 1547-1578, which posts with a token and a PR number and catches a failed
\* request
report ==
    /\ pc = "report"
    /\ LET exception == format_pr_comment(fn_in.config, fn_out.result.value)
           posts == fn_in.env.GITHUB_TOKEN /\ fn_in.env.PR_NUMBER
       IN  IF exception # ""
           THEN /\ requests' = requests \o <<"format_pr_comment">>
                /\ fn_out' = Uncaught(fn_out, exception)
                /\ pc' = "exited"
           ELSE /\ \E delivered \in BOOLEAN :
                      requests' = requests
                          \o <<"format_pr_comment", "post_pr_comment">>
                          \o (IF ~posts THEN <<>>
                              ELSE IF delivered THEN <<"POST comment">>
                              ELSE <<"POST comment failed">>)
                /\ fn_out' = fn_out
                /\ pc' = "gate_status"
    /\ UNCHANGED <<fn_in, gate_in, gate, pue_in, pue_out, thr_in, thr_out,
                   est_in, est, live>>

\* what /api/override/check answers: no answer or an error status, a JSON
\* object, or JSON of another type
EligibilityResponses == {Failed, Ok("object"), Ok("array")}

\* check_gate_status, lines 1693-1743, with check_override_eligibility,
\* lines 1582-1619, and the end of main, lines 1869-1872
check_gate_status ==
    /\ pc = "gate_status"
    /\ IF fn_out.result.value.status = "block"
       THEN \E resp \in EligibilityResponses :
              LET asked == fn_in.ORG_API_KEY /\ fn_in.env.PR_NUMBER
              IN  /\ asked \/ resp = Failed
                  /\ requests' = requests \o <<"check_gate_status">>
                        \o (IF asked THEN <<"POST /api/override/check">>
                            ELSE <<>>)
                  /\ fn_out' = IF asked /\ ~resp.failed /\ resp.data = "array"
                               THEN Uncaught(fn_out, "AttributeError")
                               ELSE Exit(fn_out, 1)
       ELSE /\ requests' = requests \o <<"check_gate_status">>
            /\ fn_out' = Exit(fn_out, 0)
    /\ pc' = "exited"
    /\ UNCHANGED <<fn_in, gate_in, gate, pue_in, pue_out, thr_in, thr_out,
                   est_in, est, live>>

\* The def statements of apply_patch_to_pr in the order the module executes
\* them (lines 509 and 813), by the number of parameters each requires; a
\* call finds the function the name was bound to last.
ApplyPatchDefinitions ==
    <<[line |-> 509, parameters |-> 1], [line |-> 813, parameters |-> 4]>>
BoundDefinition(definitions) == definitions[Len(definitions)]
\* line 715 calls apply_patch_to_pr(patch), with one argument
CallRaisesTypeError(arguments) ==
    BoundDefinition(ApplyPatchDefinitions).parameters # arguments

\* _post_reply, lines 664-684: posts with a token and a PR number and
\* catches a failed request
PostReply(in, message, delivered) ==
    <<"_post_reply: " \o message>>
        \o (IF ~(in.env.GITHUB_TOKEN /\ in.env.PR_NUMBER) THEN <<>>
            ELSE IF delivered THEN <<"POST reply">>
            ELSE <<"POST reply failed">>)

\* run_patch_apply_mode, lines 687-733, and lines 1758-1762 of main.  files
\* is whether get_pr_file_contents finds Python files (it finds none without
\* a token or a PR number), suggestions and patch what
\* call_crusoe_for_suggestions hands back (a patch comes with suggestions,
\* lines 498-502), applied what apply_patch_to_pr returns.
run_patch_apply_mode ==
    /\ pc = "patch_mode"
    /\ \E files \in BOOLEAN, suggestions \in BOOLEAN, patch \in BOOLEAN,
          applied \in BOOLEAN, delivered \in BOOLEAN :
          /\ files => fn_in.env.GITHUB_TOKEN /\ fn_in.env.PR_NUMBER
          /\ patch => suggestions
          /\ IF ~files
             THEN /\ requests' = requests \o <<"run_patch_apply_mode">>
                        \o PostReply(fn_in, "no python files", delivered)
                  /\ fn_out' = Exit(fn_out, 0)
             ELSE IF ~patch
             THEN /\ requests' = requests \o <<"run_patch_apply_mode">>
                        \o PostReply(fn_in,
                                     IF suggestions THEN "suggestions, no patch"
                                     ELSE "no patch generated", delivered)
                  /\ fn_out' = Exit(fn_out, 0)
             ELSE IF CallRaisesTypeError(1)
             THEN /\ requests' = requests
                        \o <<"run_patch_apply_mode", "apply_patch_to_pr">>
                  /\ fn_out' = Uncaught(fn_out, "TypeError")
             ELSE /\ requests' = requests
                        \o <<"run_patch_apply_mode", "apply_patch_to_pr">>
                        \o PostReply(fn_in,
                                     IF applied THEN "patch applied"
                                     ELSE "apply manually", delivered)
                  /\ fn_out' = Exit(fn_out, 0)
    /\ pc' = "exited"
    /\ UNCHANGED <<fn_in, gate_in, gate, pue_in, pue_out, thr_in, thr_out,
                   est_in, est, live>>

\* pull requests: without label or command; labelled by an administrator
\* who gave a reason; labelled by a reader, with a command of an
\* administrator; labelled and commanded by a reader; a command in capitals
PullRequest(labels, events, comments) ==
    [env_ok     |-> TRUE,
     issue      |-> Ok(labels),
     events     |-> Ok(events),
     comments   |-> Ok(comments),
     permission |-> [alice |-> Ok("admin"), bob |-> Ok("read")],
     teams      |-> Ok(CoreTeam),
     membership |-> [alice |-> "pending", bob |-> "absent"]]
Labeled(actor) ==
    [event |-> "labeled", label |-> "carbon-override", actor |-> actor]
Comment(user, body) == [user |-> user, body |-> body]
MainRuns ==
    {PullRequest({}, <<>>, <<>>),
     PullRequest({"carbon-override"}, <<Labeled("alice")>>,
                 <<Comment("alice", Body("urgent", FALSE, 0))>>),
     PullRequest({"carbon-override"}, <<Labeled("bob")>>,
                 <<Comment("alice", Body("/crusoe-run", FALSE, MinJustificationLen))>>),
     PullRequest({"carbon-override"}, <<Labeled("bob")>>,
                 <<Comment("bob", Body("/crusoe-run", FALSE, MinJustificationLen))>>),
     PullRequest({}, <<>>,
                 <<Comment("alice", Body("/crusoe-run", TRUE, MinJustificationLen))>>)}

DefaultThresholdKg == 20000
DefaultWarnKg == 10000
MainConfigs ==
    [gpu                   : {"A100"},
     estimated_hours       : {0, 1, 4},
     region                : {"us-east-1"},
     threshold_kg_co2      : {DefaultThresholdKg \div 4, DefaultThresholdKg},
     warn_kg_co2           : {DefaultWarnKg \div 2, DefaultWarnKg},
     override_permission   : {"admin"},
     allowed_teams         : {{}},
     require_justification : {TRUE}]

InitMain ==
    /\ pc = "main"
    /\ fn_in \in [fn                      : {"main"},
                  APPLY_PATCH_REQUESTED   : BOOLEAN,
                  env                     : [GITHUB_TOKEN : BOOLEAN,
                                             PR_NUMBER    : BOOLEAN],
                  OVERRIDE_SIGNING_SECRET : BOOLEAN,
                  ORG_API_KEY             : BOOLEAN,
                  FULL_CALC_AVAILABLE     : BOOLEAN,
                  gh                      : MainRuns,
                  config                  : MainConfigs]
    /\ fn_out = NoRun
    /\ requests = <<>>
    /\ PipelineIdle

NextMain ==
    \/ main_begin
    \/ run_patch_apply_mode
    \/ sha_paid_override
    \/ override_label
    \/ crusoe_reroute
    \/ call_gate_api
    \/ apply_thresholds
    \/ report
    \/ check_gate_status

SpecMain == InitMain /\ [][NextMain]_vars

\* the position of the first entry of the run's record that is in names
\* (0 when there is none)
FirstOf(names) ==
    IF \E i \in 1..Len(requests) : requests[i] \in names
    THEN CHOOSE i \in 1..Len(requests) :
            /\ requests[i] \in names
            /\ \A j \in 1..(i - 1) : requests[j] \notin names
    ELSE 0
Called(name) == FirstOf({name}) > 0
IsGranted(check) == ~check.is_none /\ check.value.allowed
IsDenied(check) == ~check.is_none /\ ~check.value.allowed
GateOrReport ==
    {"call_gate_api", "POST /api/gate/check", "calculate_emissions_local",
     "format_pr_comment", "post_pr_comment", "POST comment",
     "POST comment failed", "check_gate_status"}

\* the bypass checks are called in their order, each at most once
BypassInOrder ==
    /\ Called("check_override_label") =>
          /\ Called("check_sha_paid_override")
          /\ FirstOf({"check_sha_paid_override"}) < FirstOf({"check_override_label"})
    /\ Called("check_crusoe_reroute_command") =>
          /\ Called("check_override_label")
          /\ FirstOf({"check_override_label"})
                < FirstOf({"check_crusoe_reroute_command"})
    /\ Called("call_gate_api") =>
          /\ Called("check_crusoe_reroute_command")
          /\ FirstOf({"check_crusoe_reroute_command"}) < FirstOf({"call_gate_api"})
    /\ \A i, j \in 1..Len(requests) :
          (requests[i] = requests[j] /\ requests[i] \in
              {"check_sha_paid_override", "check_override_label",
               "check_crusoe_reroute_command"}) => i = j
\* a granted bypass has ended the run with exit code 0, with no later check,
\* no gate call and no report
GrantedEndsRun ==
    /\ fn_out.paid =>
          /\ pc = "exited" /\ fn_out.exit_code = <<0>>
          /\ ~Called("check_override_label")
          /\ ~Called("check_crusoe_reroute_command")
          /\ FirstOf(GateOrReport) = 0
    /\ IsGranted(fn_out.override_check) =>
          /\ pc = "exited" /\ fn_out.exit_code = <<0>>
          /\ ~Called("check_crusoe_reroute_command")
          /\ FirstOf(GateOrReport) = 0
    /\ IsGranted(fn_out.crusoe_check) =>
          /\ pc = "exited" /\ fn_out.exit_code = <<0>>
          /\ FirstOf(GateOrReport) = 0
\* a run that has ended after a denied check has made the later checks and,
\* unless one of them was granted, the gate call
DeniedContinued ==
    pc = "exited" =>
        /\ (Called("check_sha_paid_override") /\ ~fn_out.paid) =>
              Called("check_override_label")
        /\ IsDenied(fn_out.override_check) =>
              /\ Called("check_crusoe_reroute_command")
              /\ IsGranted(fn_out.crusoe_check) \/ Called("call_gate_api")
        /\ IsDenied(fn_out.crusoe_check) => Called("call_gate_api")

(***************************************************************************)
(* C25: in a run of main that is not in apply-patch mode the bypass checks *)
(* run in the order paid-SHA override, override label, /crusoe-run         *)
(* reroute; the first one granted ends the run with exit code 0 before the *)
(* gate API is called and before a report comment is posted; a check that  *)
(* is denied does not end the run, which goes on to the later checks and   *)
(* to the gate check.                                                      *)
(***************************************************************************)
C25_BypassOrder_FirstGrantEnds_DenialContinues ==
    ~fn_in.APPLY_PATCH_REQUESTED =>
        BypassInOrder /\ GrantedEndsRun /\ DeniedContinued

\* the label of a reader was denied and the command of an administrator
\* then granted: the run ended with exit code 0 and no gate call
C25_Witness ==
    /\ pc = "exited"
    /\ ~fn_in.APPLY_PATCH_REQUESTED
    /\ IsDenied(fn_out.override_check)
    /\ IsGranted(fn_out.crusoe_check)
    /\ fn_out.exit_code = <<0>>
    /\ ~Called("call_gate_api")

(***************************************************************************)
(* C26: when the gate check runs, the final status depends only on         *)
(* emissions_kg and the configured thresholds: 'block' iff emissions_kg >= *)
(* threshold_kg_co2, 'warn' iff warn_kg_co2 <= emissions_kg <              *)
(* threshold_kg_co2, 'pass' otherwise; the status that came with the       *)
(* result is overwritten, also when warn_kg_co2 is above threshold_kg_co2. *)
(***************************************************************************)
C26_StatusFromThresholdsOnly ==
    (pc \in {"report", "gate_status"}
        \/ (pc = "exited" /\ Called("format_pr_comment"))) =>
        LET e    == GetOr(fn_out.result.value.emissions_kg, 0)
            thr  == fn_in.config.threshold_kg_co2
            warn == fn_in.config.warn_kg_co2
            st   == fn_out.result.value.status
        IN  /\ st \in {"block", "warn", "pass"}
            /\ st = "block" <=> e >= thr
            /\ st = "warn" <=> (warn <= e /\ e < thr)

\* the hosted service said 'pass' and the thresholds, with the warning
\* threshold above the blocking one, made it 'block'
C26_Witness ==
    /\ pc = "gate_status"
    /\ fn_in.config.warn_kg_co2 > fn_in.config.threshold_kg_co2
    /\ Called("POST /api/gate/check")
    /\ ~Called("calculate_emissions_local")
    /\ fn_out.returned_status = "pass"
    /\ fn_out.result.value.status = "block"

(***************************************************************************)
(* C27: in every run of main that reaches the gate check, the report       *)
(* comment is posted, or its posting attempted, before the blocking        *)
(* decision is taken, and the process exits with code 1 iff the final      *)
(* status is 'block', whatever fails in the hosted API, the                *)
(* override-eligibility call or the comment post.                          *)
(***************************************************************************)
C27_ReportThenExitOneIffBlock ==
    (pc = "exited" /\ ~fn_in.APPLY_PATCH_REQUESTED /\ fn_in.env.PR_NUMBER
        /\ Called("call_gate_api")) =>
        /\ Called("post_pr_comment")
        /\ Called("check_gate_status") =>
              FirstOf({"post_pr_comment"}) < FirstOf({"check_gate_status"})
        /\ fn_out.exit_code = <<1>> <=>
              (~fn_out.result.is_none /\ fn_out.result.value.status = "block")

\* the replies of the apply-patch mode
ReplyCalls ==
    {i \in 1..Len(requests) :
        requests[i] \in {"_post_reply: no python files",
                         "_post_reply: suggestions, no patch",
                         "_post_reply: no patch generated",
                         "_post_reply: patch applied",
                         "_post_reply: apply manually"}}

(***************************************************************************)
(* C30: run_patch_apply_mode completes without raising and posts exactly   *)
(* one reply comment on every path: no Python files, no patch generated    *)
(* (with or without suggestions), patch applied and committed, patch not   *)
(* applicable (the reply then holds the manual-apply instructions).        *)
(***************************************************************************)
C30_PatchModeRepliesOnceNeverRaises ==
    (pc = "exited" /\ fn_in.APPLY_PATCH_REQUESTED) =>
        /\ fn_out.raised = ""
        /\ fn_out.exit_code = <<0>>
        /\ Cardinality(ReplyCalls) = 1

====
